---- MODULE Spec2Model ----
(***************************************************************************)
(* KindSpread web-push dispatch: the push_subscriptions table, the         *)
(* subscribe / unsubscribe / test-push HTTP handlers and the scheduled     *)
(* dispatch cycle (handleScheduled) in the variants the repository holds.  *)
(***************************************************************************)
EXTENDS Integers, Sequences, FiniteSets, TLC

(* ---------------------------------------------------------------------- *)
(* Bounds and input sets                                                   *)
(* ---------------------------------------------------------------------- *)

\* Number of distinct push endpoints (opaque delivery URLs) in play.
MaxEndpoints == 2

Endpoints == 1..MaxEndpoints

\* A request body without an endpoint field.
NoEndpoint == 0

\* Key material a client may post: <<p256dh, auth>>.  "malformed" stands for
\* text that base64UrlToUint8Array / importKey reject; "" for a missing field.
ValidKeys == {<<"p1", "a1">>, <<"malformed", "a2">>}

KeyInputs == ValidKeys \cup {<<"", "a1">>}

\* HTTP statuses a push service answers with.
Statuses == {200, 404, 410, 500}

\* The variants of handleScheduled kept in the repository.
Variants == {"scheduled", "hooks"}

\* Hostnames the test endpoint is called under.
Hostnames == {"localhost", "127.0.0.1", "kindspread.app"}

VARIABLES
    store,            \* push_subscriptions: endpoint -> [p256dh, auth, active]
    pc,               \* position of the dispatch cycle
    variant,          \* which handleScheduled is running
    listing,          \* outcome of the active-subscription query
    results,          \* rows fetched by the cycle: endpoint -> [p256dh, auth]
    task,             \* per-recipient task: endpoint -> [phase, status]
    expiredEndpoints, \* the cycle's expiredEndpoints array
    idx,              \* index of the deactivation loop (1-based)
    reqCount,         \* delivery requests issued in this cycle, per endpoint
    updCount,         \* deactivation UPDATEs issued in this cycle, per endpoint
    runRejected,      \* a deactivation run() rejected in this cycle
    request,          \* delivery request issued in this cycle, per endpoint
    mission,          \* the mission text of the cycle's notification
    subRows,          \* push_subscriptions as stored rows, in insertion order
    subPending,       \* subscribe POSTs received whose statement has not run
    subLast,          \* key material of the last upsert run, per endpoint
    input,            \* arguments of the library call under study
    output,           \* what the library call returned
    drawn,            \* values the platform's random source has handed out
    completions,      \* mission_completions rows, in insertion order
    compReqs,         \* POST /api/completions requests in flight
    utcDay,           \* the UTC calendar day of the clock
    tally,            \* waitUntil cycle: increments of successCount and
                      \* failCount, by the recipient whose task made them
    handlerDone,      \* waitUntil cycle: handleScheduled's promise resolved
    pushSupported,    \* navigation bar: the browser supports push
    notificationPermission, \* navigation bar: the permission last read
    isSubscribed,     \* navigation bar: the toggle shows as subscribed
    isToggling,       \* navigation bar: re-entrancy flag of the toggle
    inFlight,         \* navigation bar: subscribe/unsubscribe calls awaited
    toggleCalls,      \* navigation bar: calls of toggleNotifications so far
    mountCheck,       \* navigation bar: onMount and its isSubscribedToPush()
    testPc,           \* test endpoint: position of the handler
    testPending,      \* test endpoint: fetched rows whose turn is to come
    testTurn,         \* test endpoint: the row of the turn under way
    unsubReply        \* status of the last answer of DELETE /api/push/subscribe

cycleVars == <<pc, variant, listing, results, task, expiredEndpoints, idx,
               reqCount, updCount, runRejected, request, mission>>

\* State of the parts studied on their own: concurrent subscribe POSTs, the
\* web-push library calls and the completions endpoint.
subVars == <<subRows, subPending, subLast>>

callVars == <<input, output, drawn>>

compVars == <<completions, compReqs, utcDay>>

waitVars == <<tally, handlerDone>>

navVars == <<pushSupported, notificationPermission, isSubscribed, isToggling,
             inFlight, toggleCalls, mountCheck>>

testVars == <<testPc, testPending, testTurn>>

replyVars == <<unsubReply>>

auxVars == <<subVars, callVars, compVars, waitVars, navVars, testVars, replyVars>>

vars == <<store, pc, variant, listing, results, task, expiredEndpoints, idx,
          reqCount, updCount, runRejected, request, mission, subRows, subPending,
          subLast, input, output, drawn, completions, compReqs, utcDay,
          tally, handlerDone, pushSupported, notificationPermission,
          isSubscribed, isToggling, inFlight, toggleCalls, mountCheck, testPc,
          testPending, testTurn, unsubReply>>

(* ---------------------------------------------------------------------- *)
(* The push_subscriptions table                                            *)
(* ---------------------------------------------------------------------- *)

EmptyTable == [e \in {} |-> [p256dh |-> "", auth |-> "", active |-> 0]]

\* INSERT ... ON CONFLICT(endpoint) DO UPDATE SET p256dh, auth, active = 1
Upsert(s, e, p, a) ==
    [x \in DOMAIN s \cup {e} |->
        IF x = e THEN [p256dh |-> p, auth |-> a, active |-> 1] ELSE s[x]]

\* Variation: the statement flips the flag instead of clearing it.
DeactivateToggle(s, e) ==
    [x \in DOMAIN s |->
        IF x = e THEN [s[x] EXCEPT !.active = 1 - @] ELSE s[x]]

\* Variation: the statement is a DELETE FROM instead of the soft update.
DeactivateDeleteRow(s, e) == [x \in DOMAIN s \ {e} |-> s[x]]

\* UPDATE push_subscriptions SET active = 0 WHERE endpoint = ?
Deactivate(s, e) ==
    [x \in DOMAIN s |->
        IF x = e THEN [s[x] EXCEPT !.active = 0] ELSE s[x]]

\* The same UPDATE run once for each endpoint of a set.
RECURSIVE DeactivateAll(_, _)
DeactivateAll(s, set) ==
    IF set = {} THEN s
    ELSE LET e == CHOOSE x \in set : TRUE
         IN  DeactivateAll(Deactivate(s, e), set \ {e})

\* Variation: the query without its WHERE active = 1 clause.
SelectAllRows(s) ==
    [e \in DOMAIN s |-> [p256dh |-> s[e].p256dh, auth |-> s[e].auth]]

\* SELECT endpoint, p256dh, auth FROM push_subscriptions WHERE active = 1
SelectActive(s) ==
    LET act == {e \in DOMAIN s : s[e].active = 1}
    IN  [e \in act |-> [p256dh |-> s[e].p256dh, auth |-> s[e].auth]]

(* ---------------------------------------------------------------------- *)
(* Pure helpers of the delivery pipeline                                   *)
(* ---------------------------------------------------------------------- *)

\* encryptPayload throws when the subscriber key or auth secret does not
\* decode / import.
EncryptThrows(row) == row.p256dh = "malformed" \/ row.auth = "malformed"

\* Response.ok
ResponseOk(status) == status >= 200 /\ status <= 299

\* Variation: every error status is taken for an expired subscription.
IsGoneAnyError(status) == status >= 400

\* response.status === 410 || response.status === 404
IsGone(status) == status = 410 \/ status = 404

NoTask == [phase |-> "none", status |-> 0]

Phase(ph) == [phase |-> ph, status |-> 0]

Responded(st) == [phase |-> "responded", status |-> st]

ThrewPhases == {"threwEncrypt", "threwSign", "threwFetch"}

TerminalPhases == {"responded"} \cup ThrewPhases

\* sendPushNotification's boolean result for a finished attempt.
SendPushNotification(t) ==
    IF t.phase \in ThrewPhases THEN FALSE
    ELSE IF IsGone(t.status) THEN FALSE
    ELSE ResponseOk(t.status)

\* Does the per-recipient callback push the endpoint onto expiredEndpoints?
PushesExpired(v, t) ==
    IF v = "hooks" THEN ~SendPushNotification(t)
    ELSE t.phase = "responded" /\ IsGone(t.status)

\* The push services that host the subscriptions' endpoints.
PushHosts == <<"fcm.googleapis.com", "updates.push.services.mozilla.com">>

\* new URL(endpoint): the parts of the endpoint string of subscription e.
EndpointUrl(e) ==
    [protocol |-> "https:",
     host     |-> PushHosts[((e - 1) % Len(PushHosts)) + 1],
     pathname |-> e]

\* Variation: the audience is computed once, from the first subscription, and
\* shared by every request.
VapidAudienceShared(endpoint) ==
    <<EndpointUrl(1).protocol, "//", EndpointUrl(1).host>>

\* const audience = `${url.protocol}//${url.host}`
VapidAudience(endpoint) ==
    <<EndpointUrl(endpoint).protocol, "//", EndpointUrl(endpoint).host>>

\* A delivery request: the endpoint fetch() is aimed at and the aud claim of
\* the token in its Authorization header.
NoRequest == [url |-> NoEndpoint, aud |-> << >>]

NoRequests == [e \in Endpoints |-> NoRequest]

\* JSON.stringify({...}) of the notification, as the bytes TextEncoder gives:
\* here {"body":"hi"}.
\* Mission texts of the day (two of the list; plain ASCII, with no character
\* that JSON.stringify escapes).
Missions == {"Give a genuine compliment to a stranger",
             "Send a kind message to someone you have not talked to in a while"}

\* No cycle has computed a mission yet.
NoMission == ""

\* JSON.stringify({title, body: mission, icon, badge, tag, data: {url}}): the
\* waitUntil version has its own title and tag.
MissionPayload(v, m) ==
    "{\"title\":\""
    \o (IF v = "waitUntil" THEN "Your Daily Kindness Mission"
        ELSE "Today's Kindness Mission")
    \o "\",\"body\":\"" \o m
    \o "\",\"icon\":\"/icons/icon-192.svg\",\"badge\":\"/icons/icon-192.svg\""
    \o ",\"tag\":\""
    \o (IF v = "waitUntil" THEN "daily-mission" ELSE "kindness-mission")
    \o "\",\"data\":{\"url\":\"/\"}}"

\* encrypted.byteLength for a payload: salt, record size, key length, the
\* server's public key, the payload (one byte per character for these
\* texts), the padding delimiter and the tag.
RecordByteLength(payload) == 16 + 4 + 1 + 65 + Len(payload) + 1 + 16

DecimalDigits == <<"0", "1", "2", "3", "4", "5", "6", "7", "8", "9">>

\* Number.prototype.toString() of a non-negative integer.
RECURSIVE NumberToString(_)
NumberToString(n) ==
    IF n < 10 THEN <<DecimalDigits[n + 1]>>
    ELSE Append(NumberToString(n \div 10), DecimalDigits[(n % 10) + 1])

\* Variation: the payload is encrypted once, for the first row, and the record
\* is sent to everyone.
DeliveryBodyFirstRow(rows, e) ==
    LET first == CHOOSE x \in DOMAIN rows : \A y \in DOMAIN rows : x <= y
    IN  [p256dh |-> rows[first].p256dh, auth |-> rows[first].auth,
         byteLength |-> RecordByteLength(MissionPayload(variant, mission))]

\* await encryptPayload(payload, subscription.p256dh, subscription.auth): the
\* record, by the keys it is encrypted under and its length.
DeliveryBody(rows, e) ==
    [p256dh |-> rows[e].p256dh, auth |-> rows[e].auth,
     byteLength |-> RecordByteLength(MissionPayload(variant, mission))]

\* fetch(subscription.endpoint, {method, headers, body}) of the row of e.
DeliveryRequest(rows, e) ==
    [url |-> e,
     aud |-> VapidAudience(e),
     method |-> "POST",
     headers |-> [Authorization   |-> <<"vapid t=", VapidAudience(e)>>,
                  CryptoKey       |-> "p256ecdsa=VAPID_PUBLIC_KEY",
                  ContentType     |-> "application/octet-stream",
                  ContentEncoding |-> "aes128gcm",
                  ContentLength   |-> NumberToString(DeliveryBody(rows, e).byteLength),
                  TTL             |-> "86400"],
     body |-> DeliveryBody(rows, e)]

(* ---------------------------------------------------------------------- *)
(* Initial state: empty table, no cycle running                            *)
(* ---------------------------------------------------------------------- *)

ZeroCount == [e \in Endpoints |-> 0]

\* No library call under study.
NoCall == [fn |-> "none"]

\* No subscribe POST in flight, seen as stored rows.
SubIdle ==
    /\ subRows = << >>
    /\ subPending = {}
    /\ subLast = << >>

\* No library call made.
CallIdle ==
    /\ input = NoCall
    /\ output = NoCall
    /\ drawn = {}

\* No completion recorded or in flight.
CompIdle ==
    /\ completions = << >>
    /\ compReqs = << >>
    /\ utcDay = 1

NoTally == [e \in Endpoints |-> [success |-> 0, fail |-> 0]]

\* No waitUntil cycle has run.
WaitIdle ==
    /\ tally = NoTally
    /\ handlerDone = FALSE

\* The navigation bar as constructed, before onMount.
NavIdle ==
    /\ pushSupported = FALSE
    /\ notificationPermission = "default"
    /\ isSubscribed = FALSE
    /\ isToggling = FALSE
    /\ inFlight = << >>
    /\ toggleCalls = 0
    /\ mountCheck = "unmounted"

NoTurn == [endpoint |-> NoEndpoint, phase |-> "none", status |-> 0]

\* No call of the test endpoint is under way.
TestIdle ==
    /\ testPc = "idle"
    /\ testPending = EmptyTable
    /\ testTurn = NoTurn

\* No DELETE /api/push/subscribe has been answered.
ReplyIdle == unsubReply = 0

\* The parts studied on their own are at rest.
AuxInit ==
    SubIdle /\ CallIdle /\ CompIdle /\ WaitIdle /\ NavIdle /\ TestIdle /\ ReplyIdle

\* The subscription table is empty and no dispatch cycle is running.
CycleIdle(v) ==
    /\ store = EmptyTable
    /\ pc = "idle"
    /\ variant = v
    /\ listing = "none"
    /\ results = EmptyTable
    /\ task = [e \in Endpoints |-> NoTask]
    /\ expiredEndpoints = << >>
    /\ idx = 0
    /\ reqCount = ZeroCount
    /\ updCount = ZeroCount
    /\ runRejected = FALSE
    /\ request = NoRequests
    /\ mission = NoMission

InitWith(v) == CycleIdle(v) /\ AuxInit

(* ---------------------------------------------------------------------- *)
(* POST and DELETE /api/push/subscribe                                     *)
(* ---------------------------------------------------------------------- *)

\* POST: 400 when a field is missing, 500 when the statement rejects,
\* otherwise the upsert.
SubscribePOST(e, k, dbOk) ==
    /\ store' = IF e = NoEndpoint \/ k[1] = "" \/ k[2] = "" \/ ~dbOk
                THEN store
                ELSE Upsert(store, e, k[1], k[2])
    /\ UNCHANGED <<cycleVars, auxVars>>

\* DELETE: 400 when the endpoint is missing, 500 when the statement rejects,
\* otherwise the soft update.
SubscribeDELETE(e, dbOk) ==
    /\ store' = IF e = NoEndpoint \/ ~dbOk THEN store ELSE Deactivate(store, e)
    /\ UNCHANGED <<cycleVars, auxVars>>

\* Rows the UPDATE ... WHERE endpoint = ? matches: the result of run().
Changes(s, e) == IF e \in DOMAIN s THEN 1 ELSE 0

\* Variation: the handler answers 404 when the UPDATE matched no row.
DeleteResponseNoMatch(e, dbOk, changes) ==
    IF e = NoEndpoint THEN 400
    ELSE IF ~dbOk THEN 500
    ELSE IF changes = 0 THEN 404
    ELSE 200

\* The status DELETE answers with: 400 for a body without endpoint, 500 from
\* the catch when the statement rejects, otherwise success: true.  The result
\* of run() is not looked at.
DeleteResponse(e, dbOk, changes) ==
    IF e = NoEndpoint THEN 400
    ELSE IF ~dbOk THEN 500
    ELSE 200

\* DELETE, with the answer it returns.
UnsubscribeDELETE(e, dbOk) ==
    /\ store' = IF e = NoEndpoint \/ ~dbOk THEN store ELSE Deactivate(store, e)
    /\ unsubReply' = DeleteResponse(e, dbOk, Changes(store, e))
    /\ UNCHANGED <<cycleVars, subVars, callVars, compVars, waitVars, navVars,
                   testVars>>

(* ---------------------------------------------------------------------- *)
(* handleScheduled: the dispatch cycle                                     *)
(* ---------------------------------------------------------------------- *)

\* The worker's bindings (env.DB, the VAPID keys) are taken to be configured:
\* the handlers' "not configured" early returns touch no state.

CycleOver == pc \in {"idle", "returned", "threw"}

\* Variation: the rejection of the list query is swallowed and the handler
\* returns normally.
ScheduledListFailsSwallowed(v) ==
    /\ pc \in {"idle", "returned", "threw"}
    /\ v = variant
    /\ pc' = "returned"
    /\ variant' = v
    /\ mission' \in Missions
    /\ listing' = "rejected"
    /\ results' = EmptyTable
    /\ task' = [e \in Endpoints |-> NoTask]
    /\ expiredEndpoints' = << >>
    /\ idx' = 0
    /\ reqCount' = ZeroCount
    /\ updCount' = ZeroCount
    /\ runRejected' = FALSE
    /\ request' = NoRequests
    /\ UNCHANGED <<store, auxVars>>

\* The cron trigger fires and the list query rejects: the await throws out of
\* handleScheduled.
ScheduledListFails(v) ==
    /\ CycleOver
    /\ v = variant
    /\ pc' = "threw"
    /\ variant' = v
    /\ mission' \in Missions
    /\ listing' = "rejected"
    /\ results' = EmptyTable
    /\ task' = [e \in Endpoints |-> NoTask]
    /\ expiredEndpoints' = << >>
    /\ idx' = 0
    /\ reqCount' = ZeroCount
    /\ updCount' = ZeroCount
    /\ runRejected' = FALSE
    /\ request' = NoRequests
    /\ UNCHANGED <<store, auxVars>>

\* The query answers with no results field, or with no rows: early return.
ScheduledNoSubscriptions(v, missing) ==
    /\ CycleOver
    /\ v = variant
    /\ missing \/ DOMAIN SelectActive(store) = {}
    /\ pc' = "returned"
    /\ variant' = v
    /\ mission' \in Missions
    /\ listing' = IF missing THEN "missing" ELSE "empty"
    /\ results' = EmptyTable
    /\ task' = [e \in Endpoints |-> NoTask]
    /\ expiredEndpoints' = << >>
    /\ idx' = 0
    /\ reqCount' = ZeroCount
    /\ updCount' = ZeroCount
    /\ runRejected' = FALSE
    /\ request' = NoRequests
    /\ UNCHANGED <<store, auxVars>>

\* The query returns rows: results.map(async ...) starts one task per row.
ScheduledFanOut(v) ==
    /\ CycleOver
    /\ v = variant
    /\ DOMAIN SelectActive(store) # {}
    /\ pc' = "fanout"
    /\ variant' = v
    /\ mission' \in Missions
    /\ listing' = "rows"
    /\ results' = SelectActive(store)
    /\ task' = [e \in Endpoints |->
                  IF e \in DOMAIN SelectActive(store) THEN Phase("pending") ELSE NoTask]
    /\ expiredEndpoints' = << >>
    /\ idx' = 0
    /\ reqCount' = ZeroCount
    /\ updCount' = ZeroCount
    /\ runRejected' = FALSE
    /\ request' = NoRequests
    /\ UNCHANGED <<store, auxVars>>

\* A task reaches a terminal outcome t: the callback pushes the endpoint onto
\* expiredEndpoints when its variant says so.
Finish(e, t) ==
    /\ task' = [task EXCEPT ![e] = t]
    /\ expiredEndpoints' = IF PushesExpired(variant, t)
                           THEN Append(expiredEndpoints, e)
                           ELSE expiredEndpoints

\* The callback runs up to its fetch: await encryptPayload(...) throws on
\* malformed key material; await createVapidAuthHeader(...) throws (bad URL,
\* key import or signing) when signOk is false; otherwise
\* fetch(subscription.endpoint, ...) is issued, to a push service that will
\* answer (answers) or never does.
TaskSend(e, signOk, answers) ==
    /\ pc = "fanout"
    /\ task[e].phase = "pending"
    /\ IF EncryptThrows(results[e])
       THEN /\ Finish(e, Phase("threwEncrypt"))
            /\ UNCHANGED <<reqCount, request>>
       ELSE IF ~signOk
       THEN /\ Finish(e, Phase("threwSign"))
            /\ UNCHANGED <<reqCount, request>>
       ELSE /\ task' = [task EXCEPT ![e] = Phase(IF answers THEN "inflight" ELSE "stalled")]
            /\ reqCount' = [reqCount EXCEPT ![e] = @ + 1]
            /\ request' = [request EXCEPT ![e] = DeliveryRequest(results, e)]
            /\ UNCHANGED expiredEndpoints
    /\ UNCHANGED <<store, pc, variant, mission, listing, results, idx,
                   updCount, runRejected, auxVars>>

\* Variation: a response that is not ok makes the task fetch once more.
TaskRespondRetry(e, st) ==
    /\ pc = "fanout"
    /\ task[e].phase = "inflight"
    /\ IF ~ResponseOk(st) /\ reqCount[e] < 2
       THEN /\ reqCount' = [reqCount EXCEPT ![e] = @ + 1]
            /\ UNCHANGED <<task, expiredEndpoints>>
       ELSE /\ Finish(e, Responded(st))
            /\ UNCHANGED reqCount
    /\ UNCHANGED <<store, pc, variant, mission, listing, results, idx,
                   updCount, runRejected, request, auxVars>>

\* The fetch promise resolves with a response of status st.
TaskRespond(e, st) ==
    /\ pc = "fanout"
    /\ task[e].phase = "inflight"
    /\ Finish(e, Responded(st))
    /\ UNCHANGED <<store, pc, variant, mission, listing, results, idx, reqCount,
                   updCount, runRejected, request, auxVars>>

\* The fetch promise rejects (network error).
TaskFetchThrows(e) ==
    /\ pc = "fanout"
    /\ task[e].phase = "inflight"
    /\ Finish(e, Phase("threwFetch"))
    /\ UNCHANGED <<store, pc, variant, mission, listing, results, idx, reqCount,
                   updCount, runRejected, request, auxVars>>

\* Variation: no try/catch in the callback, the first throw settles the join.
AllSettledOrThrew ==
    \/ \A e \in DOMAIN results : task[e].phase \in TerminalPhases
    \/ \E e \in DOMAIN results : task[e].phase \in ThrewPhases

\* Variation: Promise.race in place of Promise.all, the first task to finish
\* settles the join.
AllSettledRace == \E e \in DOMAIN results : task[e].phase \in TerminalPhases

AllSettled == \A e \in DOMAIN results : task[e].phase \in TerminalPhases

\* await Promise.all(...) resolves once every task's promise has settled.
Join ==
    /\ pc = "fanout"
    /\ AllSettled
    /\ pc' = IF Len(expiredEndpoints) > 0 THEN "deactivate" ELSE "returned"
    /\ idx' = IF Len(expiredEndpoints) > 0 THEN 1 ELSE 0
    /\ UNCHANGED <<store, variant, mission, listing, results, task, expiredEndpoints,
                   reqCount, updCount, runRejected, request, auxVars>>

\* One turn of the for-loop: the UPDATE for expiredEndpoints[idx] runs.
DeactivateNext ==
    /\ pc = "deactivate"
    /\ store' = Deactivate(store, expiredEndpoints[idx])
    /\ updCount' = [updCount EXCEPT ![expiredEndpoints[idx]] = @ + 1]
    /\ idx' = idx + 1
    /\ pc' = IF idx = Len(expiredEndpoints) THEN "returned" ELSE "deactivate"
    /\ UNCHANGED <<variant, mission, listing, results, task, expiredEndpoints, reqCount,
                   runRejected, request, auxVars>>

\* One turn of the for-loop whose run() rejects: nothing catches it, the
\* rejection leaves the loop and handleScheduled.
DeactivateRejects ==
    /\ pc = "deactivate"
    /\ updCount' = [updCount EXCEPT ![expiredEndpoints[idx]] = @ + 1]
    /\ runRejected' = TRUE
    /\ pc' = "threw"
    /\ UNCHANGED <<store, variant, mission, listing, results, task, expiredEndpoints,
                   idx, reqCount, request, auxVars>>

(* ---------------------------------------------------------------------- *)
(* POST /api/push/test (development only)                                  *)
(* ---------------------------------------------------------------------- *)

\* Variation: the hostname is not looked at.
IsDevAnyHost(host) == TRUE

\* url.hostname === 'localhost' || url.hostname === '127.0.0.1'
IsDev(host) == host = "localhost" \/ host = "127.0.0.1"

\* Outcome of the fetch of one turn of the test handler's for-loop: a
\* response status, or 0 for a throw in createVapidAuthHeader or fetch.
TurnOutcomes == Statuses \cup {0}

\* What a call of the handler has done and answered so far: the response
\* status (0 while it runs), the SELECTs it ran, the rows whose push service
\* answered its fetch, and the rows it issued the UPDATE for.
NoReply == [status |-> 0, dbReads |-> 0, pushed |-> {}, updates |-> {}]

\* The fetched rows but the one for e.
Without(rows, e) == [x \in DOMAIN rows \ {e} |-> rows[x]]

\* A turn is over: the loop goes on with the rows left, or, after the last
\* one, the handler answers 200.
AfterTurn(pending, reply) ==
    /\ testTurn' = NoTurn
    /\ testPending' = pending
    /\ testPc' = IF DOMAIN pending = {} THEN "idle" ELSE "loop"
    /\ output' = IF DOMAIN pending = {} THEN [reply EXCEPT !.status = 200]
                 ELSE reply

\* The request arrives: 403 outside development; otherwise the SELECT runs:
\* it rejects (the framework answers 500), finds no active row (404), or its
\* rows are what the loop will go through.
TestRequest(host, listOk) ==
    /\ testPc = "idle"
    /\ input' = [fn |-> "testPush", hostname |-> host]
    /\ IF ~IsDev(host)
       THEN /\ output' = [NoReply EXCEPT !.status = 403]
            /\ UNCHANGED testVars
       ELSE IF ~listOk
       THEN /\ output' = [NoReply EXCEPT !.status = 500, !.dbReads = 1]
            /\ UNCHANGED testVars
       ELSE IF DOMAIN SelectActive(store) = {}
       THEN /\ output' = [NoReply EXCEPT !.status = 404, !.dbReads = 1]
            /\ UNCHANGED testVars
       ELSE /\ output' = [NoReply EXCEPT !.dbReads = 1]
            /\ testPc' = "loop"
            /\ testPending' = SelectActive(store)
            /\ testTurn' = NoTurn
    /\ UNCHANGED <<store, cycleVars, subVars, drawn, compVars, waitVars, navVars,
                   replyVars>>

\* The turn of row e starts: the payload is encrypted with the keys the
\* SELECT returned and the fetch is issued; key material that does not
\* import throws into the turn's catch.  The SELECT has no ORDER BY: the
\* rows come in any order.
TestSend(e) ==
    /\ testPc = "loop"
    /\ testTurn = NoTurn
    /\ e \in DOMAIN testPending
    /\ IF EncryptThrows(testPending[e])
       THEN AfterTurn(Without(testPending, e), output)
       ELSE /\ testTurn' = [endpoint |-> e, phase |-> "fetch", status |-> 0]
            /\ testPending' = Without(testPending, e)
            /\ UNCHANGED <<testPc, output>>
    /\ UNCHANGED <<store, cycleVars, subVars, input, drawn, compVars, waitVars,
                   navVars, replyVars>>

\* The fetch ends: with a response, whose text is awaited next, or with a
\* throw into the turn's catch (outcome 0).
TestRespond(outcome) ==
    /\ testTurn.phase = "fetch"
    /\ IF outcome \in Statuses
       THEN /\ testTurn' = [testTurn EXCEPT !.phase = "text", !.status = outcome]
            /\ output' = [output EXCEPT !.pushed = @ \cup {testTurn.endpoint}]
            /\ UNCHANGED <<testPc, testPending>>
       ELSE AfterTurn(testPending, output)
    /\ UNCHANGED <<store, cycleVars, subVars, input, drawn, compVars, waitVars,
                   navVars, replyVars>>

\* await response.text() ends: when it rejects the turn's catch runs and the
\* UPDATE is skipped; otherwise a 404/410 response goes on to the UPDATE and
\* any other response ends the turn.
TestText(textOk) ==
    /\ testTurn.phase = "text"
    /\ IF textOk /\ IsGone(testTurn.status)
       THEN /\ testTurn' = [testTurn EXCEPT !.phase = "update"]
            /\ UNCHANGED <<testPc, testPending, output>>
       ELSE AfterTurn(testPending, output)
    /\ UNCHANGED <<store, cycleVars, subVars, input, drawn, compVars, waitVars,
                   navVars, replyVars>>

\* The UPDATE of the turn runs, or rejects into the turn's catch.
TestUpdate(ok) ==
    /\ testTurn.phase = "update"
    /\ store' = IF ok THEN Deactivate(store, testTurn.endpoint) ELSE store
    /\ AfterTurn(testPending,
                 [output EXCEPT !.updates = @ \cup {testTurn.endpoint}])
    /\ UNCHANGED <<cycleVars, subVars, input, drawn, compVars, waitVars, navVars,
                   replyVars>>

(* ---------------------------------------------------------------------- *)
(* Specification                                                           *)
(* ---------------------------------------------------------------------- *)

Next ==
    \/ \E e \in Endpoints \cup {NoEndpoint}, k \in KeyInputs, ok \in BOOLEAN :
          SubscribePOST(e, k, ok)
    \/ \E e \in Endpoints \cup {NoEndpoint}, ok \in BOOLEAN : SubscribeDELETE(e, ok)
    \/ \E v \in Variants : ScheduledListFails(v)
    \/ \E v \in Variants, m \in BOOLEAN : ScheduledNoSubscriptions(v, m)
    \/ \E v \in Variants : ScheduledFanOut(v)
    \/ \E e \in Endpoints, ok \in BOOLEAN, a \in BOOLEAN : TaskSend(e, ok, a)
    \/ \E e \in Endpoints, st \in Statuses : TaskRespond(e, st)
    \/ \E e \in Endpoints : TaskFetchThrows(e)
    \/ Join
    \/ DeactivateNext
    \/ DeactivateRejects

Init == InitWith("scheduled")

InitHooks == InitWith("hooks")

Spec == Init /\ [][Next]_vars

SpecHooks == InitHooks /\ [][Next]_vars

\* The event loop runs every continuation that is ready: a started task takes
\* its next step, a push service that answers does answer, the join and the
\* deactivation loop proceed.  A stalled fetch has no step to take.
Fairness ==
    /\ \A e \in Endpoints : WF_vars(\E ok \in BOOLEAN, a \in BOOLEAN : TaskSend(e, ok, a))
    /\ \A e \in Endpoints : WF_vars((\E st \in Statuses : TaskRespond(e, st)) \/ TaskFetchThrows(e))
    /\ WF_vars(Join)
    /\ WF_vars(DeactivateNext \/ DeactivateRejects)

FairSpec == Init /\ [][Next]_vars /\ Fairness

(* ---------------------------------------------------------------------- *)
(* Concurrent POST /api/push/subscribe, on the stored rows                 *)
(* ---------------------------------------------------------------------- *)

\* Requests that may be between validation and their statement at one time.
MaxInFlight == 2

\* A stored row of push_subscriptions.
SubRow(e, p, a, act) == [endpoint |-> e, p256dh |-> p, auth |-> a, active |-> act]

\* Indices of the rows stored for an endpoint.
RowsOf(rows, e) == {i \in 1..Len(rows) : rows[i].endpoint = e}

\* Variation: a plain INSERT on a table without the UNIQUE constraint.
UpsertRowsNoConflict(rows, e, p, a) == Append(rows, SubRow(e, p, a, 1))

\* INSERT ... VALUES (?, ?, ?, 1) ON CONFLICT(endpoint) DO UPDATE SET
\* p256dh = excluded.p256dh, auth = excluded.auth, active = 1, on a table whose
\* endpoint column is UNIQUE.
UpsertRows(rows, e, p, a) ==
    IF RowsOf(rows, e) = {}
    THEN Append(rows, SubRow(e, p, a, 1))
    ELSE [i \in 1..Len(rows) |->
            IF rows[i].endpoint = e
            THEN [rows[i] EXCEPT !.p256dh = p, !.auth = a, !.active = 1]
            ELSE rows[i]]

\* Tables the requests can find: empty, or holding a retired row.
InitialRows == {<< >>, <<SubRow(1, "p0", "a0", 0)>>}

InitSubscribe ==
    /\ CycleIdle("scheduled")
    /\ WaitIdle
    /\ TestIdle
    /\ ReplyIdle
    /\ NavIdle
    /\ subRows \in InitialRows
    /\ subPending = {}
    /\ subLast = << >>
    /\ CallIdle
    /\ CompIdle

\* The handler reads the body: 400 when a field is missing, otherwise the
\* statement is bound and awaits its turn at the database.
SubReceive(id, e, k) ==
    /\ \A r \in subPending : r.id # id
    /\ subPending' = IF e = NoEndpoint \/ k[1] = "" \/ k[2] = ""
                     THEN subPending
                     ELSE subPending \cup {[id |-> id, endpoint |-> e, keys |-> k]}
    /\ UNCHANGED <<store, cycleVars, waitVars, subRows, subLast, callVars, compVars,
                   navVars, testVars, replyVars>>

\* The statement of a pending request runs, as one atomic step of the database.
SubRun(r) ==
    /\ r \in subPending
    /\ subRows' = UpsertRows(subRows, r.endpoint, r.keys[1], r.keys[2])
    /\ subLast' = [x \in DOMAIN subLast \cup {r.endpoint} |->
                     IF x = r.endpoint THEN r.keys ELSE subLast[x]]
    /\ subPending' = subPending \ {r}
    /\ UNCHANGED <<store, cycleVars, waitVars, callVars, compVars, navVars, testVars,
                   replyVars>>

\* The statement rejects: the handler answers 500 and nothing is written.
SubRunRejects(r) ==
    /\ r \in subPending
    /\ subPending' = subPending \ {r}
    /\ UNCHANGED <<store, cycleVars, waitVars, subRows, subLast, callVars, compVars,
                   navVars, testVars, replyVars>>

NextSubscribe ==
    \/ \E id \in 1..MaxInFlight, e \in Endpoints \cup {NoEndpoint}, k \in KeyInputs :
          SubReceive(id, e, k)
    \/ \E r \in subPending : SubRun(r)
    \/ \E r \in subPending : SubRunRejects(r)

SpecSubscribe == InitSubscribe /\ [][NextSubscribe]_vars

(* ---------------------------------------------------------------------- *)
(* createVapidAuthHeader                                                   *)
(* ---------------------------------------------------------------------- *)

\* env.VAPID_SUBJECT || 'mailto:hello@kindspread.app'
VapidSubject == "mailto:hello@kindspread.app"

\* Date.now() at the calls studied, in milliseconds: around second boundaries,
\* half seconds, and late clocks.
ClockSamples ==
    {0, 1, 499, 500, 999, 1000, 1001, 1500, 1999, 43200000, 86399999, 2000000999}

\* Variation: the clock is rounded to the nearest second instead of floored.
VapidExpirationRounded(nowMs) == ((nowMs + 500) \div 1000) + 12 * 60 * 60

\* const expiration = Math.floor(Date.now() / 1000) + 12 * 60 * 60
VapidExpiration(nowMs) == (nowMs \div 1000) + 12 * 60 * 60

\* The token before its encoding and signature: header and payload.
CreateVapidJwt(audience, subject, expiration) ==
    [header  |-> [typ |-> "JWT", alg |-> "ES256"],
     payload |-> [aud |-> audience, exp |-> expiration, sub |-> subject]]

\* The headers returned for one endpoint at clock nowMs.
CreateVapidAuthHeader(endpoint, subject, nowMs) ==
    [Authorization |->
        [scheme |-> "vapid",
         t |-> CreateVapidJwt(VapidAudience(endpoint), subject, VapidExpiration(nowMs)),
         k |-> "VAPID_PUBLIC_KEY"],
     CryptoKey |-> <<"p256ecdsa=", "VAPID_PUBLIC_KEY">>]

InitVapid ==
    /\ CycleIdle("scheduled")
    /\ WaitIdle
    /\ TestIdle
    /\ ReplyIdle
    /\ NavIdle
    /\ SubIdle
    /\ input = [fn |-> "createVapidAuthHeader", now |-> << >>]
    /\ output = << >>
    /\ drawn = {}
    /\ CompIdle

\* One call, for endpoint e, made when the clock reads nowMs.
VapidCall(e, nowMs) ==
    /\ input.fn = "createVapidAuthHeader"
    /\ e \notin DOMAIN output
    /\ input' = [input EXCEPT !.now =
                    [x \in DOMAIN input.now \cup {e} |->
                        IF x = e THEN nowMs ELSE input.now[x]]]
    /\ output' = [x \in DOMAIN output \cup {e} |->
                    IF x = e THEN CreateVapidAuthHeader(e, VapidSubject, nowMs)
                    ELSE output[x]]
    /\ UNCHANGED <<store, cycleVars, waitVars, subVars, drawn, compVars, navVars,
                   testVars, replyVars>>

NextVapid == \E e \in Endpoints, nowMs \in ClockSamples : VapidCall(e, nowMs)

SpecVapid == InitVapid /\ [][NextVapid]_vars

(* ---------------------------------------------------------------------- *)
(* base64url codec                                                         *)
(* ---------------------------------------------------------------------- *)

\* Longest byte sequence enumerated exhaustively.
MaxBytes == 3

\* Byte values of the enumerated sequences: 251 and 255 put '+' and '/' into
\* the standard encoding.
CodecBytes == {0, 65, 251, 255}

\* The base64 alphabet of btoa/atob, by sextet value.
Base64Alphabet ==
    <<"A", "B", "C", "D", "E", "F", "G", "H", "I", "J", "K", "L", "M",
      "N", "O", "P", "Q", "R", "S", "T", "U", "V", "W", "X", "Y", "Z",
      "a", "b", "c", "d", "e", "f", "g", "h", "i", "j", "k", "l", "m",
      "n", "o", "p", "q", "r", "s", "t", "u", "v", "w", "x", "y", "z",
      "0", "1", "2", "3", "4", "5", "6", "7", "8", "9", "+", "/">>

Sextet(c) == CHOOSE i \in 0..63 : Base64Alphabet[i + 1] = c

Char(i) == Base64Alphabet[i + 1]

\* seq with its first n elements dropped.
Drop(seq, n) == SubSeq(seq, n + 1, Len(seq))

\* btoa(String.fromCharCode(...bytes)): three bytes to four characters, the
\* last group padded with '='.
RECURSIVE Btoa(_)
Btoa(bytes) ==
    IF Len(bytes) = 0 THEN << >>
    ELSE IF Len(bytes) = 1
    THEN <<Char(bytes[1] \div 4), Char((bytes[1] % 4) * 16), "=", "=">>
    ELSE IF Len(bytes) = 2
    THEN <<Char(bytes[1] \div 4),
           Char((bytes[1] % 4) * 16 + bytes[2] \div 16),
           Char((bytes[2] % 16) * 4), "=">>
    ELSE <<Char(bytes[1] \div 4),
           Char((bytes[1] % 4) * 16 + bytes[2] \div 16),
           Char((bytes[2] % 16) * 4 + bytes[3] \div 64),
           Char(bytes[3] % 64)>> \o Btoa(Drop(bytes, 3))

\* String.prototype.replace with a global single-character pattern.
ReplaceAll(text, from, to) ==
    [i \in 1..Len(text) |-> IF text[i] = from THEN to ELSE text[i]]

\* replace(/=+$/, '')
RECURSIVE StripPadding(_)
StripPadding(text) ==
    IF Len(text) > 0 /\ text[Len(text)] = "="
    THEN StripPadding(SubSeq(text, 1, Len(text) - 1))
    ELSE text

\* '='.repeat(n)
Repeat(c, n) == [i \in 1..n |-> c]

\* The data characters of atob's input: with a length that is a multiple of
\* four, one or two trailing '=' are removed.
AtobData(text) ==
    IF Len(text) % 4 = 0 /\ Len(text) > 0 /\ text[Len(text)] = "="
    THEN IF text[Len(text) - 1] = "="
         THEN SubSeq(text, 1, Len(text) - 2)
         ELSE SubSeq(text, 1, Len(text) - 1)
    ELSE text

\* Four characters to three bytes; a final group of two or three characters
\* gives one or two bytes, its spare bits discarded.
RECURSIVE AtobBytes(_)
AtobBytes(data) ==
    IF Len(data) < 2 THEN << >>
    ELSE IF Len(data) = 2
    THEN <<Sextet(data[1]) * 4 + Sextet(data[2]) \div 16>>
    ELSE IF Len(data) = 3
    THEN <<Sextet(data[1]) * 4 + Sextet(data[2]) \div 16,
           (Sextet(data[2]) % 16) * 16 + Sextet(data[3]) \div 4>>
    ELSE <<Sextet(data[1]) * 4 + Sextet(data[2]) \div 16,
           (Sextet(data[2]) % 16) * 16 + Sextet(data[3]) \div 4,
           (Sextet(data[3]) % 4) * 64 + Sextet(data[4])>>
         \o AtobBytes(Drop(data, 4))

\* atob(base64), read back with charCodeAt.
Atob(text) == AtobBytes(AtobData(text))

\* Variation: the '/' of the standard alphabet is left in place.
Uint8ArrayToBase64UrlSlash(bytes) ==
    StripPadding(ReplaceAll(Btoa(bytes), "+", "-"))

\* uint8ArrayToBase64Url
Uint8ArrayToBase64Url(bytes) ==
    StripPadding(ReplaceAll(ReplaceAll(Btoa(bytes), "+", "-"), "/", "_"))

\* base64UrlToUint8Array
Base64UrlToUint8Array(base64url) ==
    LET padding == Repeat("=", (4 - (Len(base64url) % 4)) % 4)
        base64  == ReplaceAll(ReplaceAll(base64url \o padding, "-", "+"), "_", "/")
    IN  Atob(base64)

\* All sequences over a set, up to a length.
RECURSIVE SeqsUpTo(_, _)
SeqsUpTo(set, n) ==
    IF n = 0 THEN {<< >>}
    ELSE LET shorter == SeqsUpTo(set, n - 1)
         IN  shorter \cup {Append(q, b) : q \in shorter, b \in set}

\* An uncompressed P-256 point as the browser exports it: 0x04, then the two
\* coordinates, here filled from a seed.
PointBytes(seed) ==
    [i \in 1..65 |-> IF i = 1 THEN 4
                     ELSE IF i = 33 THEN seed % 256
                     ELSE (seed * 37 + i * 101) % 256]

CodecInputs == SeqsUpTo(CodecBytes, MaxBytes) \cup {PointBytes(1), PointBytes(2)}

InitCodec ==
    /\ CycleIdle("scheduled")
    /\ WaitIdle
    /\ TestIdle
    /\ ReplyIdle
    /\ NavIdle
    /\ SubIdle
    /\ input \in {[fn |-> "base64url", bytes |-> x] : x \in CodecInputs}
    /\ output = NoCall
    /\ drawn = {}
    /\ CompIdle

\* uint8ArrayToBase64Url is applied to the input bytes.
CodecEncode ==
    /\ input.fn = "base64url"
    /\ output = NoCall
    /\ output' = [fn |-> "encoded", text |-> Uint8ArrayToBase64Url(input.bytes)]
    /\ UNCHANGED <<store, cycleVars, waitVars, subVars, input, drawn, compVars,
                   navVars, testVars, replyVars>>

\* base64UrlToUint8Array is applied to the encoded text.
CodecDecode ==
    /\ input.fn = "base64url"
    /\ output.fn = "encoded"
    /\ output' = [fn |-> "decoded", text |-> output.text,
                  bytes |-> Base64UrlToUint8Array(output.text)]
    /\ UNCHANGED <<store, cycleVars, waitVars, subVars, input, drawn, compVars,
                   navVars, testVars, replyVars>>

NextCodec == CodecEncode \/ CodecDecode

SpecCodec == InitCodec /\ [][NextCodec]_vars

(* ---------------------------------------------------------------------- *)
(* encryptPayload (aes128gcm, RFC 8291)                                    *)
(* ---------------------------------------------------------------------- *)

\* The platform's primitives (crypto.subtle) are stood for by small
\* arithmetic stand-ins with the same interfaces and algebra: a key agreement
\* on which both sides arrive at one secret, a keyed derivation that depends
\* on salt, key material and info in their order, and an authenticated cipher
\* whose decryption undoes its encryption under the same key and nonce.

\* Longest payload, in characters.
MaxPayload == 2

\* Characters of the payloads: one, two, three and four bytes in UTF-8.
PayloadChars == {65, 233, 8364, 128512}

\* Private keys of the subscribers (browsers).
SubscriberKeys == {3, 5}

\* What the random source can return to generateKey and getRandomValues:
\* enough for two calls.
RandomValues == 11..14

GroupPrime == 251

GroupGenerator == 6

RECURSIVE Pow(_, _)
Pow(b, e) == IF e = 0 THEN 1 ELSE (b * Pow(b, e - 1)) % GroupPrime

\* exportKey('raw', publicKey): the 65-byte uncompressed point of a key pair.
PublicKeyBytes(priv) == PointBytes(Pow(GroupGenerator, priv))

\* deriveBits({name: 'ECDH', public}, privateKey, 256)
SharedSecret(priv, publicBytes) ==
    LET z == Pow(publicBytes[33], priv)
    IN  [i \in 1..32 |-> (z * i + i) % 256]

\* A digest of bytes[lo..hi] that depends on the bytes and on their order.
RECURSIVE Digest(_, _, _)
Digest(bytes, lo, hi) ==
    IF lo > hi THEN 1
    ELSE IF lo = hi THEN bytes[lo] + 2
    ELSE LET mid == (lo + hi) \div 2
         IN  (Digest(bytes, lo, mid) * 31 + Digest(bytes, mid + 1, hi) * 17 + 3) % 65521

\* The running digest h extended by a byte sequence.
Absorb(h, bytes) == (h * 131 + Digest(bytes, 1, Len(bytes))) % 65521

\* deriveBits({name: 'HKDF', hash: 'SHA-256', salt, info}, key, 8 * n)
Hkdf(salt, key, info, n) ==
    LET prk == Absorb(Absorb(7, salt), key)
        okm == Absorb(prk, info)
    IN  [i \in 1..n |-> (okm * (i + 1) + okm \div 256 + i) % 256]

\* The 16-byte authentication tag of AES-GCM.
GcmTag(key, iv, ciphertext) ==
    LET h == Absorb(Absorb(Absorb(13, key), iv), ciphertext)
    IN  [i \in 1..16 |-> (h * (i + 5) + h \div 256) % 256]

\* The key stream of the cipher at position i.
KeyStream(key, iv, i) ==
    LET h == Absorb(Absorb(11, key), iv)
    IN  (h * (i + 3) + i) % 256

\* crypto.subtle.encrypt({name: 'AES-GCM', iv}, key, plain): the ciphertext,
\* as long as the plaintext, with the tag appended.
AesGcmEncrypt(key, iv, plain) ==
    LET ciphertext == [i \in 1..Len(plain) |-> (plain[i] + KeyStream(key, iv, i)) % 256]
    IN  ciphertext \o GcmTag(key, iv, ciphertext)

\* crypto.subtle.decrypt: fails unless the tag verifies.
AesGcmDecrypt(key, iv, data) ==
    IF Len(data) < 16 THEN [ok |-> FALSE, bytes |-> << >>]
    ELSE LET ciphertext == SubSeq(data, 1, Len(data) - 16)
             tag == SubSeq(data, Len(data) - 15, Len(data))
         IN  IF tag # GcmTag(key, iv, ciphertext)
             THEN [ok |-> FALSE, bytes |-> << >>]
             ELSE [ok |-> TRUE,
                   bytes |-> [i \in 1..Len(ciphertext) |->
                                (ciphertext[i] + 256 - KeyStream(key, iv, i)) % 256]]

\* TextEncoder: the UTF-8 bytes of one character (a Unicode scalar value).
Utf8Char(cp) ==
    IF cp < 128 THEN <<cp>>
    ELSE IF cp < 2048 THEN <<192 + cp \div 64, 128 + (cp % 64)>>
    ELSE IF cp < 65536
    THEN <<224 + cp \div 4096, 128 + ((cp \div 64) % 64), 128 + (cp % 64)>>
    ELSE <<240 + cp \div 262144, 128 + ((cp \div 4096) % 64),
           128 + ((cp \div 64) % 64), 128 + (cp % 64)>>

\* new TextEncoder().encode(text)
RECURSIVE Utf8Encode(_)
Utf8Encode(text) ==
    IF Len(text) = 0 THEN << >> ELSE Utf8Char(text[1]) \o Utf8Encode(Tail(text))

\* 'WebPush: info\x00'
WebPushLabel == <<87, 101, 98, 80, 117, 115, 104, 58, 32, 105, 110, 102, 111, 0>>

\* 'Content-Encoding: aes128gcm\x00'
CekLabel ==
    <<67, 111, 110, 116, 101, 110, 116, 45, 69, 110, 99, 111, 100, 105, 110,
      103, 58, 32, 97, 101, 115, 49, 50, 56, 103, 99, 109, 0>>

\* 'Content-Encoding: nonce\x00'
NonceLabel ==
    <<67, 111, 110, 116, 101, 110, 116, 45, 69, 110, 99, 111, 100, 105, 110,
      103, 58, 32, 110, 111, 110, 99, 101, 0>>

\* Variation: the two public keys in the opposite order.
AuthInfoSwapped(subscriberPublicKey, localPublicKeyBytes) ==
    Utf8Encode(WebPushLabel) \o localPublicKeyBytes \o subscriberPublicKey

\* concatUint8Arrays(['WebPush: info\0', subscriberPublicKey, localPublicKeyBytes])
AuthInfo(subscriberPublicKey, localPublicKeyBytes) ==
    Utf8Encode(WebPushLabel) \o subscriberPublicKey \o localPublicKeyBytes

\* Variation: no delimiter byte is appended.
PaddedPayloadNone(payloadBytes) == payloadBytes

\* paddedPayload: the payload bytes and the delimiter of a final record.
PaddedPayload(payloadBytes) == Append(payloadBytes, 2)

\* Variation: the record size is written little-endian.
Uint32LittleEndian(n) ==
    <<n % 256, (n \div 256) % 256, (n \div 65536) % 256, (n \div 16777216) % 256>>

\* DataView.setUint32(0, n, false)
Uint32BigEndian(n) ==
    <<(n \div 16777216) % 256, (n \div 65536) % 256, (n \div 256) % 256, n % 256>>

\* crypto.getRandomValues(new Uint8Array(16)), for a value of the source.
SaltBytes(r) == [i \in 1..16 |-> (r * 17 + i * 29) % 256]

\* The auth secret a subscriber's browser made with its key pair.
AuthBytes(priv) == [i \in 1..16 |-> (priv * 53 + i * 7) % 256]

\* Variation: the salt of the first call is kept and used again.
CallSaltCached(earlier, r) ==
    IF Len(earlier) > 0 THEN SubSeq(earlier[1], 1, 16) ELSE SaltBytes(r)

\* The salt of a call: its own draw, whatever earlier calls returned.
CallSalt(earlier, r) == SaltBytes(r)

\* encryptPayload, given the private key generateKey made and the salt.
EncryptPayload(payload, p256dhKey, authSecret, localPrivate, salt) ==
    LET payloadBytes == Utf8Encode(payload)
        subscriberPublicKey == Base64UrlToUint8Array(p256dhKey)
        subscriberAuth == Base64UrlToUint8Array(authSecret)
        localPublicKeyBytes == PublicKeyBytes(localPrivate)
        sharedSecret == SharedSecret(localPrivate, subscriberPublicKey)
        authInfo == AuthInfo(subscriberPublicKey, localPublicKeyBytes)
        ikm == Hkdf(subscriberAuth, sharedSecret, authInfo, 32)
        cek == Hkdf(salt, ikm, Utf8Encode(CekLabel), 16)
        nonce == Hkdf(salt, ikm, Utf8Encode(NonceLabel), 12)
        encrypted == AesGcmEncrypt(cek, nonce, PaddedPayload(payloadBytes))
        header == salt \o Uint32BigEndian(4096)
                       \o <<Len(localPublicKeyBytes)>> \o localPublicKeyBytes
    IN  header \o encrypted

\* TextDecoder: the characters of a UTF-8 byte sequence.
RECURSIVE Utf8Decode(_)
Utf8Decode(bytes) ==
    IF Len(bytes) = 0 THEN << >>
    ELSE IF bytes[1] < 128
    THEN <<bytes[1]>> \o Utf8Decode(Drop(bytes, 1))
    ELSE IF bytes[1] < 224
    THEN <<(bytes[1] - 192) * 64 + (bytes[2] - 128)>> \o Utf8Decode(Drop(bytes, 2))
    ELSE IF bytes[1] < 240
    THEN <<(bytes[1] - 224) * 4096 + (bytes[2] - 128) * 64 + (bytes[3] - 128)>>
         \o Utf8Decode(Drop(bytes, 3))
    ELSE <<(bytes[1] - 240) * 262144 + (bytes[2] - 128) * 4096
             + (bytes[3] - 128) * 64 + (bytes[4] - 128)>>
         \o Utf8Decode(Drop(bytes, 4))

\* The recipient's side of RFC 8291, the mirror image of encryptPayload: the
\* browser holds the private key and auth secret of the subscription and is
\* handed the record.
RecipientDecrypt(record, uaPrivate, authBytes) ==
    LET salt == SubSeq(record, 1, 16)
        idlen == record[21]
        asPublic == SubSeq(record, 22, 21 + idlen)
        body == SubSeq(record, 22 + idlen, Len(record))
        uaPublic == PublicKeyBytes(uaPrivate)
        ecdhSecret == SharedSecret(uaPrivate, asPublic)
        keyInfo == WebPushLabel \o uaPublic \o asPublic
        ikm == Hkdf(authBytes, ecdhSecret, keyInfo, 32)
        cek == Hkdf(salt, ikm, CekLabel, 16)
        nonce == Hkdf(salt, ikm, NonceLabel, 12)
        opened == AesGcmDecrypt(cek, nonce, body)
    IN  IF ~opened.ok \/ Len(opened.bytes) = 0
        THEN [ok |-> FALSE, text |-> << >>]
        ELSE IF opened.bytes[Len(opened.bytes)] # 2
        THEN [ok |-> FALSE, text |-> << >>]
        ELSE [ok |-> TRUE,
              text |-> Utf8Decode(SubSeq(opened.bytes, 1, Len(opened.bytes) - 1))]

\* The arguments of the calls: a payload and a subscription's stored keys.
EncryptInputs ==
    {[fn |-> "encryptPayload",
      payload |-> t,
      p256dh |-> Uint8ArrayToBase64Url(PublicKeyBytes(k)),
      auth |-> Uint8ArrayToBase64Url(AuthBytes(k)),
      subscriber |-> k] : t \in SeqsUpTo(PayloadChars, MaxPayload), k \in SubscriberKeys}

InitEncrypt ==
    /\ CycleIdle("scheduled")
    /\ WaitIdle
    /\ TestIdle
    /\ ReplyIdle
    /\ NavIdle
    /\ SubIdle
    /\ input \in EncryptInputs
    /\ output = [records |-> << >>, opened |-> << >>]
    /\ drawn = {}
    /\ CompIdle

\* One call of encryptPayload with the arguments under study.  The random
\* source hands generateKey and getRandomValues values it has not handed out
\* before.
EncryptCall(k, r) ==
    /\ input.fn = "encryptPayload"
    /\ k # r
    /\ {k, r} \cap drawn = {}
    /\ drawn' = drawn \cup {k, r}
    /\ output' = [output EXCEPT !.records =
                     Append(@, EncryptPayload(input.payload, input.p256dh, input.auth,
                                              k, CallSalt(output.records, r)))]
    /\ UNCHANGED <<store, cycleVars, waitVars, subVars, input, compVars, navVars,
                   testVars, replyVars>>

\* The subscriber's browser opens the next record it was sent.
RecipientOpens ==
    /\ input.fn = "encryptPayload"
    /\ Len(output.opened) < Len(output.records)
    /\ output' = [output EXCEPT !.opened =
                     Append(@, RecipientDecrypt(output.records[Len(output.opened) + 1],
                                                input.subscriber,
                                                AuthBytes(input.subscriber)))]
    /\ UNCHANGED <<store, cycleVars, waitVars, subVars, input, drawn, compVars,
                   navVars, testVars, replyVars>>

NextEncrypt ==
    \/ \E k \in RandomValues, r \in RandomValues : EncryptCall(k, r)
    \/ RecipientOpens

SpecEncrypt == InitEncrypt /\ [][NextEncrypt]_vars

(* ---------------------------------------------------------------------- *)
(* POST /api/completions                                                   *)
(* ---------------------------------------------------------------------- *)

\* Requests handled, possibly at the same time.
MaxRequests == 2

\* Calendar days the clock runs through.
MaxDay == 2

\* body.anonymous_id: absent (or empty, which is as falsy), or a user's id.
AnonymousIds == {"", "u1", "u2"}

NoCompletion == [phase |-> "none", anonymous_id |-> "", status |-> 0, today |-> 0]

\* Request bodies: a field is << >> when the JSON has no such key and <<v>>
\* when it has value v.
BodiesOf(anon) ==
    [mission_text : {<< >>, <<"">>, <<"m">>},
     latitude : {<< >>, <<-91>>, <<-90>>, <<0>>, <<91>>},
     longitude : {<< >>, <<-181>>, <<0>>, <<180>>, <<181>>},
     anonymous_id : {anon}]

CompletionBodies == UNION {BodiesOf(anon) : anon \in AnonymousIds}

\* Variation: the coordinates are tested for falsiness like mission_text.
MissingFieldsFalsy(body) ==
    \/ body.mission_text \in {<< >>, <<"">>}
    \/ body.latitude \in {<< >>, <<0>>}
    \/ body.longitude \in {<< >>, <<0>>}

\* !body.mission_text || body.latitude === undefined ||
\* body.longitude === undefined
MissingFields(body) ==
    \/ body.mission_text \in {<< >>, <<"">>}
    \/ body.latitude = << >>
    \/ body.longitude = << >>

\* latitude < -90 || latitude > 90 || longitude < -180 || longitude > 180
InvalidCoordinates(body) ==
    \/ body.latitude[1] < -90
    \/ body.latitude[1] > 90
    \/ body.longitude[1] < -180
    \/ body.longitude[1] > 180

\* Does SELECT id ... WHERE anonymous_id = ? AND date(completed_at) = ? find
\* a row?
ExistingCompletion(rows, anon, today) ==
    \E i \in 1..Len(rows) : rows[i].anonymous_id = anon /\ rows[i].day = today

\* The row the INSERT adds: anonymous_id || null, completed_at by default
\* datetime('now').
CompletionRow(anon, day) ==
    [anonymous_id |-> IF anon = "" THEN "NULL" ELSE anon, day |-> day]

InitCompletions ==
    /\ CycleIdle("scheduled")
    /\ WaitIdle
    /\ TestIdle
    /\ ReplyIdle
    /\ NavIdle
    /\ SubIdle
    /\ CallIdle
    /\ completions = << >>
    /\ compReqs = [id \in 1..MaxRequests |-> NoCompletion]
    /\ utcDay = 1

\* Where the handler stands once the body is read: 400 for a body that
\* fails validation; with an anonymous_id it reads the clock (today) and
\* issues the SELECT, whose answer it awaits; without one it goes on to the
\* INSERT.
CompReceived(body, day) ==
    LET anon == body.anonymous_id
    IN  IF MissingFields(body) \/ InvalidCoordinates(body)
        THEN [phase |-> "done", anonymous_id |-> anon, status |-> 400, today |-> 0]
        ELSE IF anon # ""
        THEN [phase |-> "select", anonymous_id |-> anon, status |-> 0, today |-> day]
        ELSE [phase |-> "insert", anonymous_id |-> anon, status |-> 0, today |-> 0]

\* The handler runs from the request up to its first await on the database.
CompReceive(id, body) ==
    /\ compReqs[id].phase = "none"
    /\ compReqs' = [compReqs EXCEPT ![id] = CompReceived(body, utcDay)]
    /\ UNCHANGED <<store, cycleVars, waitVars, subVars, callVars, completions, utcDay,
                   navVars, testVars, replyVars>>

\* The database answers the SELECT, on the table as it is by then and with
\* the day the handler bound: it rejects (caught, 500), finds the user's row
\* of that day (409), or finds none and the handler goes on to the INSERT.
CompSelect(id, selectOk) ==
    /\ compReqs[id].phase = "select"
    /\ compReqs' = [compReqs EXCEPT ![id] =
          IF ~selectOk
          THEN [@ EXCEPT !.phase = "done", !.status = 500]
          ELSE IF ExistingCompletion(completions, @.anonymous_id, @.today)
          THEN [@ EXCEPT !.phase = "done", !.status = 409]
          ELSE [@ EXCEPT !.phase = "insert"]]
    /\ UNCHANGED <<store, cycleVars, waitVars, subVars, callVars, completions, utcDay,
                   navVars, testVars, replyVars>>

\* The INSERT of a request that passed the check runs.
CompInsert(id) ==
    /\ compReqs[id].phase = "insert"
    /\ completions' = Append(completions, CompletionRow(compReqs[id].anonymous_id, utcDay))
    /\ compReqs' = [compReqs EXCEPT ![id].phase = "done", ![id].status = 200]
    /\ UNCHANGED <<store, cycleVars, waitVars, subVars, callVars, utcDay, navVars,
                   testVars, replyVars>>

\* The INSERT rejects: caught, 500.
CompInsertRejects(id) ==
    /\ compReqs[id].phase = "insert"
    /\ compReqs' = [compReqs EXCEPT ![id].phase = "done", ![id].status = 500]
    /\ UNCHANGED <<store, cycleVars, waitVars, subVars, callVars, completions, utcDay,
                   navVars, testVars, replyVars>>

\* Midnight UTC passes.
DayTick ==
    /\ utcDay < MaxDay
    /\ utcDay' = utcDay + 1
    /\ UNCHANGED <<store, cycleVars, waitVars, subVars, callVars, completions, compReqs,
                   navVars, testVars, replyVars>>

NextCompletions ==
    \/ \E id \in 1..MaxRequests, body \in CompletionBodies : CompReceive(id, body)
    \/ \E id \in 1..MaxRequests, ok \in BOOLEAN : CompSelect(id, ok)
    \/ \E id \in 1..MaxRequests : CompInsert(id)
    \/ \E id \in 1..MaxRequests : CompInsertRejects(id)
    \/ DayTick

SpecCompletions == InitCompletions /\ [][NextCompletions]_vars

(* ---------------------------------------------------------------------- *)
(* handleScheduled, the ctx.waitUntil version                              *)
(* ---------------------------------------------------------------------- *)

\* In this version each recipient's task counts its own outcome in the shared
\* successCount / failCount and awaits the deactivation UPDATE itself; the
\* handler hands Promise.all(...) to ctx.waitUntil and returns at once.

InitWait == InitWith("waitUntil")

\* Terminal phases of a task of this version: "threwUpdate" is a 404/410
\* response whose UPDATE rejected.
WaitTerminalPhases == TerminalPhases \cup {"threwUpdate"}

RECURSIVE SumOver(_, _)
SumOver(f, set) ==
    IF set = {} THEN 0
    ELSE LET e == CHOOSE x \in set : TRUE
         IN  f[e] + SumOver(f, set \ {e})

\* let successCount
SuccessCount == SumOver([e \in Endpoints |-> tally[e].success], Endpoints)

\* let failCount
FailCount == SumOver([e \in Endpoints |-> tally[e].fail], Endpoints)

\* The state every invocation starts from: counters at zero, no task.
WaitReset ==
    /\ variant = "waitUntil"
    /\ CycleOver
    /\ expiredEndpoints' = << >>
    /\ idx' = 0
    /\ reqCount' = ZeroCount
    /\ updCount' = ZeroCount
    /\ runRejected' = FALSE
    /\ request' = NoRequests
    /\ mission' \in Missions
    /\ tally' = NoTally
    /\ UNCHANGED <<store, variant, subVars, callVars, compVars, navVars, testVars,
                   replyVars>>

\* The list query rejects: the await throws out of handleScheduled.
WaitListFails ==
    /\ WaitReset
    /\ pc' = "threw"
    /\ listing' = "rejected"
    /\ results' = EmptyTable
    /\ task' = [e \in Endpoints |-> NoTask]
    /\ handlerDone' = FALSE

\* No results field, or no rows: early return.
WaitNoSubscriptions(missing) ==
    /\ WaitReset
    /\ missing \/ DOMAIN SelectActive(store) = {}
    /\ pc' = "returned"
    /\ listing' = IF missing THEN "missing" ELSE "empty"
    /\ results' = EmptyTable
    /\ task' = [e \in Endpoints |-> NoTask]
    /\ handlerDone' = TRUE

\* results.map(sendNotification) starts one task per row, the joined promise
\* is handed to ctx.waitUntil and handleScheduled returns.
WaitFanOut ==
    /\ WaitReset
    /\ DOMAIN SelectActive(store) # {}
    /\ pc' = "fanout"
    /\ listing' = "rows"
    /\ results' = SelectActive(store)
    /\ task' = [e \in Endpoints |->
                  IF e \in DOMAIN SelectActive(store) THEN Phase("pending") ELSE NoTask]
    /\ handlerDone' = TRUE

\* Variation: a failure is counted as a delivery as well.
CountFailBoth(t, e) ==
    [t EXCEPT ![e].fail = @ + 1, ![e].success = @ + 1]

\* successCount++
CountSuccess(t, e) == [t EXCEPT ![e].success = @ + 1]

\* failCount++
CountFail(t, e) == [t EXCEPT ![e].fail = @ + 1]

\* sendNotification up to its fetch: a throw of encryptPayload or
\* createVapidAuthHeader lands in the catch, which counts a failure.
WaitTaskSend(e, signOk, answers) ==
    /\ variant = "waitUntil"
    /\ pc = "fanout"
    /\ task[e].phase = "pending"
    /\ IF EncryptThrows(results[e])
       THEN /\ task' = [task EXCEPT ![e] = Phase("threwEncrypt")]
            /\ tally' = CountFail(tally, e)
            /\ UNCHANGED <<reqCount, request>>
       ELSE IF ~signOk
       THEN /\ task' = [task EXCEPT ![e] = Phase("threwSign")]
            /\ tally' = CountFail(tally, e)
            /\ UNCHANGED <<reqCount, request>>
       ELSE /\ task' = [task EXCEPT ![e] = Phase(IF answers THEN "inflight" ELSE "stalled")]
            /\ reqCount' = [reqCount EXCEPT ![e] = @ + 1]
            /\ request' = [request EXCEPT ![e] = DeliveryRequest(results, e)]
            /\ UNCHANGED tally
    /\ UNCHANGED <<store, pc, variant, mission, listing, results, expiredEndpoints, idx,
                   updCount, runRejected, handlerDone, subVars, callVars, compVars,
                   navVars, testVars, replyVars>>

\* The response arrives: ok counts a success; anything else counts a failure,
\* and a 404/410 goes on to await the UPDATE.
WaitTaskRespond(e, st) ==
    /\ variant = "waitUntil"
    /\ pc = "fanout"
    /\ task[e].phase = "inflight"
    /\ IF ResponseOk(st)
       THEN /\ tally' = CountSuccess(tally, e)
            /\ task' = [task EXCEPT ![e] = Responded(st)]
       ELSE /\ tally' = CountFail(tally, e)
            /\ task' = [task EXCEPT ![e] =
                          IF IsGone(st) THEN [phase |-> "updating", status |-> st]
                          ELSE Responded(st)]
    /\ UNCHANGED <<store, pc, variant, mission, listing, results, expiredEndpoints, idx,
                   reqCount, updCount, runRejected, request, handlerDone,
                   subVars, callVars, compVars, navVars, testVars, replyVars>>

\* The fetch promise rejects: the catch counts a failure.
WaitTaskFetchThrows(e) ==
    /\ variant = "waitUntil"
    /\ pc = "fanout"
    /\ task[e].phase = "inflight"
    /\ task' = [task EXCEPT ![e] = Phase("threwFetch")]
    /\ tally' = CountFail(tally, e)
    /\ UNCHANGED <<store, pc, variant, mission, listing, results, expiredEndpoints, idx,
                   reqCount, updCount, runRejected, request, handlerDone,
                   subVars, callVars, compVars, navVars, testVars, replyVars>>

\* The task's UPDATE ... SET active = 0 runs.
WaitTaskUpdate(e) ==
    /\ variant = "waitUntil"
    /\ pc = "fanout"
    /\ task[e].phase = "updating"
    /\ store' = Deactivate(store, e)
    /\ updCount' = [updCount EXCEPT ![e] = @ + 1]
    /\ task' = [task EXCEPT ![e] = Responded(task[e].status)]
    /\ UNCHANGED <<pc, variant, mission, listing, results, expiredEndpoints, idx,
                   reqCount, runRejected, request, subVars, callVars, compVars,
                   waitVars, navVars, testVars, replyVars>>

\* The task's UPDATE rejects: the rejection lands in the same catch, which
\* counts a failure.
WaitTaskUpdateRejects(e) ==
    /\ variant = "waitUntil"
    /\ pc = "fanout"
    /\ task[e].phase = "updating"
    /\ updCount' = [updCount EXCEPT ![e] = @ + 1]
    /\ runRejected' = TRUE
    /\ task' = [task EXCEPT ![e] = [phase |-> "threwUpdate", status |-> task[e].status]]
    /\ tally' = CountFail(tally, e)
    /\ UNCHANGED <<store, pc, variant, mission, listing, results, expiredEndpoints, idx,
                   reqCount, request, handlerDone, subVars, callVars, compVars,
                   navVars, testVars, replyVars>>

\* Every sendNotification promise has settled.
WaitAllSettled == \A e \in DOMAIN results : task[e].phase \in WaitTerminalPhases

\* Promise.all(...) resolves and the .then callback logs the two counters.
WaitJoin ==
    /\ variant = "waitUntil"
    /\ pc = "fanout"
    /\ WaitAllSettled
    /\ pc' = "returned"
    /\ UNCHANGED <<store, variant, mission, listing, results, task, expiredEndpoints, idx,
                   reqCount, updCount, runRejected, request, auxVars>>

NextWait ==
    \/ \E e \in Endpoints \cup {NoEndpoint}, k \in KeyInputs, ok \in BOOLEAN :
          SubscribePOST(e, k, ok)
    \/ \E e \in Endpoints \cup {NoEndpoint}, ok \in BOOLEAN : SubscribeDELETE(e, ok)
    \/ WaitListFails
    \/ \E m \in BOOLEAN : WaitNoSubscriptions(m)
    \/ WaitFanOut
    \/ \E e \in Endpoints, ok \in BOOLEAN, a \in BOOLEAN : WaitTaskSend(e, ok, a)
    \/ \E e \in Endpoints, st \in Statuses : WaitTaskRespond(e, st)
    \/ \E e \in Endpoints : WaitTaskFetchThrows(e)
    \/ \E e \in Endpoints : WaitTaskUpdate(e)
    \/ \E e \in Endpoints : WaitTaskUpdateRejects(e)
    \/ WaitJoin

SpecWait == InitWait /\ [][NextWait]_vars

(* ---------------------------------------------------------------------- *)
(* The fan-out over subscriptions with different keys                      *)
(* ---------------------------------------------------------------------- *)

\* Key material of the listed rows: two browsers' keys and a malformed one.
DeliverKeys == ValidKeys \cup {<<"p2", "a2">>}

\* A table in which every endpoint is subscribed, with keys k[e].
TableOf(k) ==
    [e \in Endpoints |-> [p256dh |-> k[e][1], auth |-> k[e][2], active |-> 1]]

\* handleScheduled has just listed the rows and started one task per row.
DeliverStart ==
    /\ store \in {TableOf(k) : k \in [Endpoints -> DeliverKeys]}
    /\ pc = "fanout"
    /\ variant = "scheduled"
    /\ listing = "rows"
    /\ results = SelectActive(store)
    /\ task = [e \in Endpoints |-> Phase("pending")]
    /\ expiredEndpoints = << >>
    /\ idx = 0
    /\ reqCount = ZeroCount
    /\ updCount = ZeroCount
    /\ runRejected = FALSE
    /\ request = NoRequests
    /\ mission \in Missions

InitDeliver == DeliverStart /\ AuxInit

NextDeliver ==
    \/ \E e \in Endpoints, ok \in BOOLEAN, a \in BOOLEAN : TaskSend(e, ok, a)
    \/ \E e \in Endpoints, st \in Statuses : TaskRespond(e, st)
    \/ \E e \in Endpoints : TaskFetchThrows(e)
    \/ Join
    \/ DeactivateNext
    \/ DeactivateRejects

SpecDeliver == InitDeliver /\ [][NextDeliver]_vars

(* ---------------------------------------------------------------------- *)
(* POST /api/push/test, with its replies                                   *)
(* ---------------------------------------------------------------------- *)

NextTest ==
    \/ \E e \in Endpoints \cup {NoEndpoint}, k \in KeyInputs, ok \in BOOLEAN :
          SubscribePOST(e, k, ok)
    \/ \E e \in Endpoints \cup {NoEndpoint}, ok \in BOOLEAN : SubscribeDELETE(e, ok)
    \/ \E h \in Hostnames, ok \in BOOLEAN : TestRequest(h, ok)
    \/ \E e \in Endpoints : TestSend(e)
    \/ \E o \in TurnOutcomes : TestRespond(o)
    \/ \E ok \in BOOLEAN : TestText(ok)
    \/ \E ok \in BOOLEAN : TestUpdate(ok)

SpecTest == Init /\ [][NextTest]_vars

(* ---------------------------------------------------------------------- *)
(* Every operation that writes push_subscriptions                          *)
(* ---------------------------------------------------------------------- *)

\* Endpoints the browsers of this study register.
StoreEndpoints == {1, 2}

\* The dispatch cycle, the test endpoint, and POST and DELETE
\* /api/push/subscribe on one table.  POST and DELETE requests arrive at any
\* moment of a cycle and of a test request; a test request is taken up
\* between cycles and a cycle starts between test requests.  The only write
\* of either is the soft update, which a DELETE request makes at any moment,
\* so each of them still meets every table the other could leave it.
NextStore ==
    \/ \E e \in StoreEndpoints \cup {NoEndpoint}, k \in KeyInputs, ok \in BOOLEAN :
          SubscribePOST(e, k, ok)
    \/ \E e \in Endpoints \cup {NoEndpoint}, ok \in BOOLEAN : SubscribeDELETE(e, ok)
    \/ testPc = "idle" /\ \E v \in Variants : ScheduledListFails(v)
    \/ testPc = "idle" /\ \E v \in Variants, m \in BOOLEAN :
          ScheduledNoSubscriptions(v, m)
    \/ testPc = "idle" /\ \E v \in Variants : ScheduledFanOut(v)
    \/ \E e \in Endpoints, ok \in BOOLEAN, a \in BOOLEAN : TaskSend(e, ok, a)
    \/ \E e \in Endpoints, st \in Statuses : TaskRespond(e, st)
    \/ \E e \in Endpoints : TaskFetchThrows(e)
    \/ Join
    \/ DeactivateNext
    \/ DeactivateRejects
    \/ CycleOver /\ \E h \in Hostnames, ok \in BOOLEAN : TestRequest(h, ok)
    \/ \E e \in Endpoints : TestSend(e)
    \/ \E o \in TurnOutcomes : TestRespond(o)
    \/ \E ok \in BOOLEAN : TestText(ok)
    \/ \E ok \in BOOLEAN : TestUpdate(ok)

SpecStore == Init /\ [][NextStore]_vars

(* ---------------------------------------------------------------------- *)
(* Deactivation, with its answers                                          *)
(* ---------------------------------------------------------------------- *)

\* Key material of the registrations here: one valid pair, and a body
\* without p256dh.
UnsubscribeKeys == {<<"p1", "a1">>, <<"", "a1">>}

\* The dispatch cycle beside POST and DELETE /api/push/subscribe, the DELETE
\* with the status it answers.
NextUnsubscribe ==
    \/ \E e \in Endpoints \cup {NoEndpoint}, k \in UnsubscribeKeys, ok \in BOOLEAN :
          SubscribePOST(e, k, ok)
    \/ \E e \in Endpoints \cup {NoEndpoint}, ok \in BOOLEAN : UnsubscribeDELETE(e, ok)
    \/ \E v \in Variants : ScheduledListFails(v)
    \/ \E v \in Variants, m \in BOOLEAN : ScheduledNoSubscriptions(v, m)
    \/ \E v \in Variants : ScheduledFanOut(v)
    \/ \E e \in Endpoints, ok \in BOOLEAN, a \in BOOLEAN : TaskSend(e, ok, a)
    \/ \E e \in Endpoints, st \in Statuses : TaskRespond(e, st)
    \/ \E e \in Endpoints : TaskFetchThrows(e)
    \/ Join
    \/ DeactivateNext
    \/ DeactivateRejects

SpecUnsubscribe == Init /\ [][NextUnsubscribe]_vars

(* ---------------------------------------------------------------------- *)
(* A subscribe POST racing a dispatch cycle                                *)
(* ---------------------------------------------------------------------- *)

\* input.fresh records the endpoints whose POST committed after the cycle
\* received their 404/410 and before the cycle's UPDATE for them ran.

InitRace ==
    /\ DeliverStart
    /\ SubIdle
    /\ input = [fn |-> "resubscribe", fresh |-> {}]
    /\ output = NoCall
    /\ drawn = {}
    /\ CompIdle
    /\ WaitIdle
    /\ TestIdle
    /\ ReplyIdle
    /\ NavIdle

\* The cycle's UPDATE for e has not run yet.
DeactivationAhead(e) ==
    \/ pc = "fanout"
    \/ pc = "deactivate" /\ \E i \in idx..Len(expiredEndpoints) : expiredEndpoints[i] = e

\* The browser registers endpoint e again while the cycle is in flight: the
\* POST handler's upsert commits.
Resubscribe(e, k) ==
    /\ input.fn = "resubscribe"
    /\ pc \in {"fanout", "deactivate"}
    /\ store' = Upsert(store, e, k[1], k[2])
    /\ input' = IF task[e].phase = "responded" /\ IsGone(task[e].status)
                     /\ DeactivationAhead(e)
                THEN [input EXCEPT !.fresh = @ \cup {e}]
                ELSE input
    /\ UNCHANGED <<cycleVars, subVars, output, drawn, compVars, waitVars, navVars,
                   testVars, replyVars>>

NextRace ==
    \/ NextDeliver
    \/ \E e \in Endpoints, k \in {<<"p1", "a1">>, <<"p2", "a2">>} : Resubscribe(e, k)

SpecRace == InitRace /\ [][NextRace]_vars

(* ---------------------------------------------------------------------- *)
(* GET /api/completions: the limit parameter                               *)
(* ---------------------------------------------------------------------- *)

\* Longest limit text enumerated.
MaxLimitLen == 3

\* Characters of the limit texts, as UTF-16 code units: - + space and
\* no-break space, the digits 0 5 9, and the letters a f x.
LimitChars == {45, 43, 32, 160, 48, 53, 57, 97, 102, 120}

\* A JavaScript number, as far as the handler goes: NaN or an integer.
NaN == [nan |-> TRUE, value |-> 0]

Int32(n) == [nan |-> FALSE, value |-> n]

\* White space that parseInt skips at the start of its argument
\* (StrWhiteSpaceChar): tab, line feed, vertical tab, form feed, carriage
\* return, space, no-break space, the other space separators, the line and
\* paragraph separators and the byte order mark.
WhiteSpace ==
    {9, 10, 11, 12, 13, 32, 160, 5760} \cup (8192..8202)
        \cup {8232, 8233, 8239, 8287, 12288, 65279}

\* The digit a character stands for (0-9, then a-z or A-Z for 10 to 35),
\* 36 when it stands for none.
DigitValue(c) ==
    IF c \in 48..57 THEN c - 48
    ELSE IF c \in 97..122 THEN c - 87
    ELSE IF c \in 65..90 THEN c - 55
    ELSE 36

IsDigit(c, radix) == DigitValue(c) < radix

\* The value of the longest run of digits of text from position i on.
RECURSIVE ParseDigits(_, _, _, _)
ParseDigits(text, i, radix, acc) ==
    IF i > Len(text) \/ ~IsDigit(text[i], radix) THEN acc
    ELSE ParseDigits(text, i + 1, radix, acc * radix + DigitValue(text[i]))

\* The first position of text, from i on, that holds no white space.
RECURSIVE SkipWhiteSpace(_, _)
SkipWhiteSpace(text, i) ==
    IF i <= Len(text) /\ text[i] \in WhiteSpace THEN SkipWhiteSpace(text, i + 1)
    ELSE i

\* parseInt(text) without a radix: leading white space is skipped, then an
\* optional sign, then a 0x or 0X prefix makes the digits hexadecimal; the
\* digits are read up to the first character that is not one; NaN when there
\* is no digit.
ParseInt(text) ==
    LET start == SkipWhiteSpace(text, 1)
        signed == start <= Len(text) /\ text[start] \in {45, 43}
        negative == signed /\ text[start] = 45
        body == IF signed THEN start + 1 ELSE start
        hex == /\ body + 1 <= Len(text)
               /\ text[body] = 48
               /\ text[body + 1] \in {120, 88}
        radix == IF hex THEN 16 ELSE 10
        first == IF hex THEN body + 2 ELSE body
    IN  IF first > Len(text) \/ ~IsDigit(text[first], radix) THEN NaN
        ELSE IF negative THEN Int32(0 - ParseDigits(text, first, radix, 0))
        ELSE Int32(ParseDigits(text, first, radix, 0))

\* Math.min(a, b): NaN when either is NaN.
MathMin(a, b) ==
    IF a.nan \/ b.nan THEN NaN
    ELSE IF a.value <= b.value THEN a ELSE b

\* url.searchParams.get('limit'): null, or the parameter's text.
NoParam == [present |-> FALSE, text |-> << >>]

Param(text) == [present |-> TRUE, text |-> text]

\* Math.min(parseInt(url.searchParams.get('limit') || '100'), 500): the value
\* bound to LIMIT ?.
BoundLimit(param) ==
    LET text == IF param.present /\ Len(param.text) > 0 THEN param.text
                ELSE <<49, 48, 48>>
    IN  MathMin(ParseInt(text), Int32(500))

LimitInputs == {NoParam} \cup {Param(t) : t \in SeqsUpTo(LimitChars, MaxLimitLen)}

InitLimit ==
    /\ CycleIdle("scheduled")
    /\ SubIdle
    /\ input \in {[fn |-> "getCompletions", limit |-> q] : q \in LimitInputs}
    /\ output = NoCall
    /\ drawn = {}
    /\ CompIdle
    /\ WaitIdle
    /\ TestIdle
    /\ ReplyIdle
    /\ NavIdle

\* The handler computes limit and binds it to the statement.
GetCompletions ==
    /\ input.fn = "getCompletions"
    /\ output = NoCall
    /\ output' = [fn |-> "bound", limit |-> BoundLimit(input.limit)]
    /\ UNCHANGED <<store, cycleVars, waitVars, subVars, input, drawn, compVars,
                   navVars, testVars, replyVars>>

NextLimit == GetCompletions

SpecLimit == InitLimit /\ [][NextLimit]_vars

(* ---------------------------------------------------------------------- *)
(* Navigation bar: toggleNotifications                                     *)
(* ---------------------------------------------------------------------- *)

\* Calls of toggleNotifications followed per session.
MaxToggles == 4

\* NotificationPermission | 'unsupported'
Permissions == {"default", "granted", "denied", "unsupported"}

\* What an awaited subscribeToPush / unsubscribeFromPush resolves to: the
\* subscription, null, or a boolean.  Both catch every error, so the awaits
\* of toggleNotifications never reject.
ToggleOutcomes == {"subscription", "null", "done"}

\* An operation just started: its request has not reached the server.
Operation(op) == [op |-> op, served |-> FALSE, saved |-> FALSE]

\* The component as constructed: the $state initial values.
InitNav ==
    /\ CycleIdle("scheduled")
    /\ SubIdle
    /\ CallIdle
    /\ CompIdle
    /\ WaitIdle
    /\ TestIdle
    /\ ReplyIdle
    /\ NavIdle

\* onMount: support and permission are read from the browser; without the
\* Notification API the permission reads 'unsupported' and push is not
\* supported.  With permission granted isSubscribedToPush() is started and
\* its answer is awaited in a callback.
NavMount(supported, permission) ==
    /\ mountCheck = "unmounted"
    /\ permission = "unsupported" => ~supported
    /\ pushSupported' = supported
    /\ notificationPermission' = permission
    /\ mountCheck' = IF supported /\ permission = "granted" THEN "pending"
                     ELSE "none"
    /\ UNCHANGED <<store, cycleVars, subVars, callVars, compVars, waitVars,
                   testVars, isSubscribed, isToggling, inFlight, toggleCalls,
                   replyVars>>

\* The callback of isSubscribedToPush().then(...) runs.
NavMountCallback(subscribed) ==
    /\ mountCheck = "pending"
    /\ isSubscribed' = subscribed
    /\ mountCheck' = "done"
    /\ UNCHANGED <<store, cycleVars, subVars, callVars, compVars, waitVars,
                   testVars, pushSupported, notificationPermission, isToggling,
                   inFlight, toggleCalls, replyVars>>

\* Variation: the guard looks at pushSupported only.
ToggleReturnsEarlyUnguarded == ~pushSupported

\* if (!pushSupported || isToggling) return;
ToggleReturnsEarly == ~pushSupported \/ isToggling

\* toggleNotifications() up to its await: the early return, or the flag is
\* raised and the operation for the current isSubscribed is started.
ToggleCall ==
    /\ toggleCalls < MaxToggles
    /\ toggleCalls' = toggleCalls + 1
    /\ IF ToggleReturnsEarly
       THEN UNCHANGED <<isToggling, inFlight>>
       ELSE /\ isToggling' = TRUE
            /\ inFlight' = Append(inFlight,
                                  Operation(IF isSubscribed THEN "unsubscribe"
                                            ELSE "subscribe"))
    /\ UNCHANGED <<store, cycleVars, subVars, callVars, compVars, waitVars,
                   testVars, pushSupported, notificationPermission,
                   isSubscribed, mountCheck, replyVars>>

\* The request of operation i reaches the server, for the browser's push
\* endpoint e: the POST of subscribeToPush is the upsert, the DELETE of
\* unsubscribeFromPush the soft update; ok is FALSE when the statement
\* rejects and the server answers 500.
ToggleServe(i, e, ok) ==
    /\ i \in 1..Len(inFlight)
    /\ ~inFlight[i].served
    /\ store' = IF ~ok THEN store
                ELSE IF inFlight[i].op = "subscribe"
                THEN Upsert(store, e, "p1", "a1")
                ELSE Deactivate(store, e)
    /\ inFlight' = [inFlight EXCEPT ![i].served = TRUE, ![i].saved = ok]
    /\ UNCHANGED <<cycleVars, subVars, callVars, compVars, waitVars, testVars,
                   pushSupported, notificationPermission, isSubscribed,
                   isToggling, toggleCalls, mountCheck, replyVars>>

\* The awaited operation resolves and toggleNotifications resumes: the state
\* is updated and finally lowers the flag.  subscribeToPush resolves to the
\* subscription only after the server answered its POST with success, and to
\* null at any earlier point (permission not granted, no registration, a
\* failed or lost request).  After a subscribe, Notification.permission is
\* read again, whatever it is by then; the toggle only runs with
\* pushSupported, so the Notification API is there and the reading is not
\* 'unsupported'.
ToggleSettle(outcome, permission) ==
    /\ inFlight # << >>
    /\ LET call == Head(inFlight)
       IN  /\ outcome \in (IF call.op = "unsubscribe" THEN {"done"}
                           ELSE IF call.served /\ call.saved
                           THEN {"subscription", "null"}
                           ELSE {"null"})
           /\ permission # "unsupported"
           /\ IF call.op = "unsubscribe"
              THEN /\ isSubscribed' = FALSE
                   /\ UNCHANGED notificationPermission
              ELSE /\ isSubscribed' = (outcome = "subscription")
                   /\ notificationPermission' = permission
    /\ inFlight' = Tail(inFlight)
    /\ isToggling' = FALSE
    /\ UNCHANGED <<store, cycleVars, subVars, callVars, compVars, waitVars,
                   testVars, pushSupported, toggleCalls, mountCheck, replyVars>>

NextNav ==
    \/ \E supported \in BOOLEAN, permission \in Permissions :
           NavMount(supported, permission)
    \/ \E subscribed \in BOOLEAN : NavMountCallback(subscribed)
    \/ ToggleCall
    \/ \E i \in 1..MaxToggles, e \in Endpoints, ok \in BOOLEAN :
           ToggleServe(i, e, ok)
    \/ \E outcome \in ToggleOutcomes, permission \in Permissions :
           ToggleSettle(outcome, permission)

SpecNav == InitNav /\ [][NextNav]_vars

(* ---------------------------------------------------------------------- *)
(* Properties                                                              *)
(* ---------------------------------------------------------------------- *)

Range(seq) == {seq[i] : i \in 1..Len(seq)}

Answered(e, set) == task[e].phase = "responded" /\ task[e].status \in set

StalledTasks == {e \in Endpoints : task[e].phase = "stalled"}

\* C1: in handleScheduled (part_002) no deactivation UPDATE is ever issued for
\* a subscription whose response was not 404/410, none is issued twice, and a
\* cycle over a non-empty list whose statements all succeed returns normally
\* having issued the UPDATE exactly once for each 404/410 subscription.
C1_DeactivatesExactlyGone ==
    variant = "scheduled" =>
        /\ \A e \in Endpoints :
              updCount[e] <= (IF Answered(e, {404, 410}) THEN 1 ELSE 0)
        /\ (listing = "rows" /\ pc \in {"returned", "threw"} /\ ~runRejected) =>
              /\ pc = "returned"
              /\ \A e \in Endpoints :
                    updCount[e] = (IF Answered(e, {404, 410}) THEN 1 ELSE 0)

C1_Witness ==
    /\ variant = "scheduled"
    /\ pc = "returned"
    /\ \E e1, e2 \in Endpoints :
          /\ Answered(e1, {410}) /\ updCount[e1] = 1
          /\ Answered(e2, {500}) /\ updCount[e2] = 0

\* C2 (as claimed): in handleScheduled of hooks.server.ts a subscription whose
\* attempt ended in a throw or in a status that is neither 2xx nor 404/410 is
\* never put on the list of endpoints to deactivate.
C2_FailureNotDeactivated ==
    variant = "hooks" =>
        \A e \in Endpoints :
            (task[e].phase \in ThrewPhases \/ Answered(e, {500}))
                => e \notin Range(expiredEndpoints)

\* C3: a cycle that starts when the table has no active row, or whose query
\* answers without a results list, ends at once by returning normally with no
\* task started, no delivery request and no deactivation UPDATE.
C3_EmptyListNoWork ==
    [][ ( /\ pc \in {"idle", "returned", "threw"}
          /\ cycleVars' # cycleVars
          /\ listing' # "rejected"
          /\ \/ \A e \in DOMAIN store : store[e].active = 0
             \/ listing' = "missing" )
        => ( /\ pc' = "returned"
             /\ store' = store
             /\ \A e \in Endpoints :
                   /\ task'[e].phase = "none"
                   /\ reqCount'[e] = 0
                   /\ updCount'[e] = 0 ) ]_vars

C3_Witness ==
    /\ pc = "returned"
    /\ listing = "empty"
    /\ DOMAIN store # {}
    /\ \A e \in Endpoints : reqCount[e] = 0 /\ updCount[e] = 0

\* C4: every fetched subscription has a task; a throw in one task never makes
\* the cycle throw, and when the join has passed every task is terminal and
\* every task that did not itself throw before its fetch has issued its
\* request, whatever happened to its siblings.
C4_TasksIndependent ==
    variant = "scheduled" =>
        /\ \A e \in DOMAIN results : task[e].phase # "none"
        /\ pc = "threw" => (listing = "rejected" \/ runRejected)
        /\ (listing = "rows" /\ pc # "fanout") =>
              \A e \in DOMAIN results :
                 /\ task[e].phase \in TerminalPhases
                 /\ task[e].phase \notin {"threwEncrypt", "threwSign"}
                       => reqCount[e] = 1

C4_Witness ==
    /\ variant = "scheduled"
    /\ pc = "returned"
    /\ \E e1, e2 \in Endpoints :
          /\ task[e1].phase = "threwEncrypt"
          /\ Answered(e2, {200}) /\ reqCount[e2] = 1

\* C5 (as claimed): a cycle over a non-empty list never throws, and when it is
\* over the UPDATE has been issued for every endpoint of expiredEndpoints,
\* also when one of the updates rejected.
C5_DeactivationsIndependent ==
    (variant = "scheduled" /\ listing = "rows" /\ pc \in {"returned", "threw"}) =>
        /\ pc = "returned"
        /\ \A e \in Range(expiredEndpoints) : updCount[e] >= 1

\* C6: when the list query rejects, the cycle has thrown with no task
\* started, no delivery request issued and no deactivation UPDATE made.
C6_ListFailureAborts ==
    listing = "rejected" =>
        /\ pc = "threw"
        /\ DOMAIN results = {}
        /\ expiredEndpoints = << >>
        /\ \A e \in Endpoints :
              /\ task[e].phase = "none"
              /\ reqCount[e] = 0
              /\ updCount[e] = 0

C6_Witness ==
    /\ listing = "rejected"
    /\ pc = "threw"
    /\ \E e \in DOMAIN store : store[e].active = 1

\* C7 (as claimed): a fan-out in which at most one push service never answers
\* eventually gets past its join.
C7_OneSilentEndpointCompletes ==
    (variant = "scheduled" /\ pc = "fanout")
        ~> (pc # "fanout" \/ Cardinality(StalledTasks) >= 2)

\* C8: within a cycle no subscription is sent more than one delivery request,
\* and one whose encryption and signing succeeded is sent exactly one.
C8_OneRequestEach ==
    variant = "scheduled" =>
        \A e \in Endpoints :
            /\ reqCount[e] <= 1
            /\ task[e].phase \in {"inflight", "stalled", "responded", "threwFetch"}
                  => reqCount[e] = 1
            /\ task[e].phase \in {"none", "pending", "threwEncrypt", "threwSign"}
                  => reqCount[e] = 0

C8_Witness ==
    /\ variant = "scheduled"
    /\ pc = "returned"
    /\ \E e1, e2 \in Endpoints :
          /\ Answered(e1, {500}) /\ reqCount[e1] = 1
          /\ Answered(e2, {404, 410}) /\ reqCount[e2] = 1

\* C9 (as claimed): a row that is inactive is never active again.
C9_RetiredForever ==
    [][ \A e \in DOMAIN store :
            store[e].active = 0 => (e \in DOMAIN store' /\ store'[e].active = 0) ]_vars

\* C9 (amended): a row that is inactive stays inactive under every step of a
\* dispatch cycle and every DELETE; the only step that makes it active again
\* is a POST /api/push/subscribe for that endpoint.
C9_RetiredUntilResubscribed ==
    [][ \A e \in DOMAIN store :
            (store[e].active = 0 /\ ~(e \in DOMAIN store' /\ store'[e].active = 0))
                => \E k \in KeyInputs : SubscribePOST(e, k, TRUE) ]_vars

C9_Witness ==
    /\ pc = "returned"
    /\ \E e \in DOMAIN store :
          /\ store[e].active = 0
          /\ updCount[e] = 1

\* C10: no step of a dispatch cycle, of the test endpoint, of a subscribe
\* POST or of an unsubscribe DELETE removes a row of push_subscriptions: the
\* set of stored endpoints never shrinks.
C10_RowsNeverRemoved ==
    [][ DOMAIN store \subseteq DOMAIN store' ]_vars

\* A dispatch cycle ran its UPDATE for one endpoint and the test endpoint
\* ran its UPDATE for another; both rows are stored, inactive.
C10_Witness ==
    /\ pc = "returned"
    /\ input.fn = "testPush"
    /\ testPc = "idle"
    /\ output.status = 200
    /\ \E e1, e2 \in DOMAIN store :
          /\ e1 # e2
          /\ store[e1].active = 0 /\ updCount[e1] = 1
          /\ store[e2].active = 0 /\ updCount[e2] = 0
          /\ e2 \in output.updates

\* C11: deactivation is idempotent: on an endpoint whose row is already
\* inactive, or that has no row, the UPDATE leaves the table as it is, and
\* running it twice gives the table that running it once gives; a DELETE
\* request whose statement runs is answered 200 and the cycle's loop goes on
\* without a throw, also when the endpoint's row is inactive or missing.
C11_DeactivationIdempotent ==
    /\ [](\A e \in Endpoints :
            /\ Deactivate(Deactivate(store, e), e) = Deactivate(store, e)
            /\ (e \notin DOMAIN store => Deactivate(store, e) = store)
            /\ (e \in DOMAIN store /\ store[e].active = 0
                    => Deactivate(store, e) = store)
            /\ \A x \in DOMAIN Deactivate(store, e) :
                   Deactivate(store, e)[x].active = 1 => x # e)
    /\ [][/\ \A e \in Endpoints :
              UnsubscribeDELETE(e, TRUE) =>
                  /\ unsubReply' = 200
                  /\ (e \notin DOMAIN store \/ store[e].active = 0)
                        => store' = store
          /\ (pc = "deactivate" /\ idx' = idx + 1) =>
                  /\ pc' \in {"deactivate", "returned"}
                  /\ ~runRejected'
                  /\ store' = Deactivate(store, expiredEndpoints[idx])
                  /\ store[expiredEndpoints[idx]].active = 0 => store' = store]_vars

\* A DELETE request was answered 200 and the cycle is about to run its
\* UPDATE for an endpoint that a request has already made inactive, beside
\* an active row.
C11_Witness ==
    /\ unsubReply = 200
    /\ pc = "deactivate"
    /\ store[expiredEndpoints[idx]].active = 0
    /\ updCount[expiredEndpoints[idx]] = 0
    /\ \E e2 \in DOMAIN store : store[e2].active = 1

\* C13: every delivery request of a cycle goes to its own subscription's
\* endpoint and carries a token whose aud is the scheme and host of that very
\* endpoint; no token whose aud names one origin is sent to another origin.
C13_TokenPerRequestOrigin ==
    \A e \in Endpoints :
        request[e] # NoRequest =>
            /\ request[e].url = e
            /\ request[e].aud =
                  <<"https:", "//",
                    IF e % 2 = 1 THEN "fcm.googleapis.com"
                    ELSE "updates.push.services.mozilla.com">>
            /\ reqCount[e] = 1

\* Two requests of one cycle to endpoints on different hosts, each sent.
C13_Witness ==
    \E e1, e2 \in Endpoints :
        /\ request[e1] # NoRequest
        /\ request[e2] # NoRequest
        /\ request[e1].aud # request[e2].aud

\* C12: after any sequence of subscribe POSTs, concurrent and repeated ones
\* for one endpoint included, the table holds at most one row per endpoint,
\* and the row of an endpoint that was posted carries the p256dh and auth of
\* the last statement that ran for it, with active = 1.
C12_OneRowLastWrite ==
    \A e \in Endpoints :
        /\ Cardinality({i \in 1..Len(subRows) : subRows[i].endpoint = e}) <= 1
        /\ e \in DOMAIN subLast =>
              \E i \in 1..Len(subRows) :
                  /\ subRows[i].endpoint = e
                  /\ subRows[i].p256dh = subLast[e][1]
                  /\ subRows[i].auth = subLast[e][2]
                  /\ subRows[i].active = 1

\* Two POSTs for one endpoint were in flight together with different keys: one
\* has run and written its keys, the other is still pending.
C12_Witness ==
    \E r \in subPending :
        /\ r.endpoint \in DOMAIN subLast
        /\ subLast[r.endpoint] # r.keys
        /\ \E i \in 1..Len(subRows) :
              subRows[i].endpoint = r.endpoint /\ subRows[i].p256dh # "p0"

\* C14: tokens made for endpoints on different hosts have different aud
\* claims, and every token's exp is the clock of its call in whole seconds
\* plus 43200: later than the call and at most twelve hours after it.
C14_AudPerHostExpTwelveHours ==
    input.fn = "createVapidAuthHeader" =>
        /\ \A e \in DOMAIN output :
              /\ output[e].Authorization.t.payload.exp
                    = (input.now[e] \div 1000) + 43200
              /\ output[e].Authorization.t.payload.exp * 1000 > input.now[e]
              /\ output[e].Authorization.t.payload.exp * 1000
                    <= input.now[e] + 43200000
        /\ \A e1, e2 \in DOMAIN output :
              e1 % 2 # e2 % 2 =>
                  output[e1].Authorization.t.payload.aud
                      # output[e2].Authorization.t.payload.aud

\* Tokens for two hosts, one of them made in the second half of a second.
C14_Witness ==
    /\ input.fn = "createVapidAuthHeader"
    /\ \E e1, e2 \in DOMAIN output :
          /\ e1 % 2 # e2 % 2
          /\ input.now[e1] % 1000 >= 500
          /\ input.now[e2] % 1000 = 0

\* C19: decoding the base64url encoding of a byte sequence gives the sequence
\* back, for the empty sequence, lengths 1 and 2 modulo 3 and 65-byte keys
\* alike, and the encoded text holds none of '+', '/', '='.
C19_Base64UrlRoundTrip ==
    input.fn = "base64url" =>
        /\ output.fn = "decoded" => output.bytes = input.bytes
        /\ output.fn \in {"encoded", "decoded"} =>
              /\ \A i \in 1..Len(output.text) : output.text[i] \notin {"+", "/", "="}
              /\ Len(output.text) = (Len(input.bytes) * 4 + 2) \div 3

\* A two-byte sequence whose standard encoding has '+', '/' and padding, and
\* which has been encoded and decoded.
C19_Witness ==
    /\ input.fn = "base64url"
    /\ output.fn = "decoded"
    /\ input.bytes = <<251, 255>>
    /\ output.text = <<"-", "_", "8">>

\* C15: the record is laid out as salt (bytes 0-15), the big-endian value 4096
\* (bytes 16-19), the value 65 (byte 20), the 65-byte uncompressed ephemeral
\* public key (bytes 21-85), and from byte 86 the AES-GCM output of the
\* payload bytes followed by the single byte 0x02.
C15_RecordLayout ==
    input.fn = "encryptPayload" =>
        \A n \in 1..Len(output.records) :
            \E k \in drawn, r \in drawn :
                LET rec == output.records[n]
                    ikm == Hkdf(AuthBytes(input.subscriber),
                                SharedSecret(k, PublicKeyBytes(input.subscriber)),
                                WebPushLabel \o PublicKeyBytes(input.subscriber)
                                             \o PublicKeyBytes(k), 32)
                IN  /\ SubSeq(rec, 1, 16) = SaltBytes(r)
                    /\ SubSeq(rec, 17, 20) = <<0, 0, 16, 0>>
                    /\ rec[21] = 65
                    /\ rec[22] = 4
                    /\ SubSeq(rec, 22, 86) = PublicKeyBytes(k)
                    /\ SubSeq(rec, 87, Len(rec)) =
                          AesGcmEncrypt(Hkdf(SaltBytes(r), ikm, CekLabel, 16),
                                        Hkdf(SaltBytes(r), ikm, NonceLabel, 12),
                                        Utf8Encode(input.payload) \o <<2>>)

\* A record made for a payload of characters of different UTF-8 widths.
C15_Witness ==
    /\ input.fn = "encryptPayload"
    /\ input.payload = <<8364, 65>>
    /\ Len(output.records) = 1
    /\ Len(output.records[1]) > 86

\* C16: the record is 16 + 4 + 1 + 65 + n + 1 + 16 bytes long, n being the
\* number of bytes of the UTF-8 encoding of the plaintext, empty or not.
C16_RecordLength ==
    input.fn = "encryptPayload" =>
        \A m \in 1..Len(output.records) :
            Len(output.records[m]) =
                16 + 4 + 1 + 65
                + Cardinality({<<i, j>> \in (1..Len(input.payload)) \X (1..4) :
                                 j <= (IF input.payload[i] < 128 THEN 1
                                       ELSE IF input.payload[i] < 2048 THEN 2
                                       ELSE IF input.payload[i] < 65536 THEN 3
                                       ELSE 4)})
                + 1 + 16

\* Records made for the empty plaintext and for a four-byte character:
\* 103 and 107 bytes.
C16_Witness ==
    /\ input.fn = "encryptPayload"
    /\ Len(output.records) >= 1
    /\ \/ input.payload = << >> /\ Len(output.records[1]) = 103
       \/ input.payload = <<128512>> /\ Len(output.records[1]) = 107

\* C17: every call makes its own ephemeral key pair and its own salt, none of
\* them carried over from another call, so two calls with the same arguments
\* return records that differ, in their salts and in their public keys.
C17_FreshKeyAndSalt ==
    input.fn = "encryptPayload" =>
        \A m, n \in 1..Len(output.records) :
            m # n =>
                /\ output.records[m] # output.records[n]
                /\ SubSeq(output.records[m], 1, 16) # SubSeq(output.records[n], 1, 16)
                /\ SubSeq(output.records[m], 22, 86) # SubSeq(output.records[n], 22, 86)

\* Two calls were made with identical arguments.
C17_Witness ==
    /\ input.fn = "encryptPayload"
    /\ Len(output.records) = 2
    /\ Len(input.payload) > 0

\* C18: the recipient's procedure of RFC 8291, given the record, the
\* subscription's private key and its auth secret, recovers the plaintext.
C18_RecipientRecovers ==
    input.fn = "encryptPayload" =>
        \A n \in 1..Len(output.opened) :
            /\ output.opened[n].ok
            /\ output.opened[n].text = input.payload

\* Both records of a payload with multi-byte characters have been opened.
C18_Witness ==
    /\ input.fn = "encryptPayload"
    /\ Len(output.opened) = 2
    /\ input.payload = <<233, 128512>>
    /\ output.opened[2].ok

\* C20: after any POSTs to /api/completions, concurrent ones with one
\* anonymous_id included, the table holds at most one row per anonymous_id and
\* UTC day.
C20_OneCompletionPerUserDay ==
    \A anon \in {"u1", "u2"}, d \in 1..MaxDay :
        Cardinality({i \in 1..Len(completions) :
                        completions[i].anonymous_id = anon /\ completions[i].day = d}) <= 1

\* C21: in the waitUntil version every recipient ends in one outcome, fixed
\* by what its request met: Delivered (counted once as a success) iff the
\* status is 2xx, Gone (the UPDATE issued for it, once) iff it is 404 or 410,
\* TransientFailure (counted as a failure, no UPDATE) for any other status
\* and for every throw on the way to the response; no recipient is counted
\* both as a success and as a failure, and within the cycle a finished task
\* changes no more.
C21_OneTerminalOutcome ==
    /\ [](variant = "waitUntil" =>
            \A e \in Endpoints :
                /\ tally[e].success <= 1
                /\ ~(tally[e].success >= 1 /\ tally[e].fail >= 1)
                /\ updCount[e] <= 1
                /\ tally[e].success = 1 <=>
                      (task[e].phase = "responded"
                         /\ task[e].status >= 200 /\ task[e].status <= 299)
                /\ updCount[e] = 1 =>
                      (task[e].phase \in {"responded", "threwUpdate"}
                         /\ task[e].status \in {404, 410})
                /\ (task[e].phase = "responded" /\ task[e].status \in {404, 410})
                      => updCount[e] = 1
                /\ (\/ task[e].phase \in {"threwEncrypt", "threwSign", "threwFetch"}
                    \/ (task[e].phase = "responded"
                          /\ task[e].status \notin {404, 410}
                          /\ ~(task[e].status >= 200 /\ task[e].status <= 299)))
                      => (tally[e].fail = 1 /\ updCount[e] = 0))
    /\ [][variant = "waitUntil" =>
            \A e \in Endpoints :
                (task[e].phase \in {"responded", "threwEncrypt", "threwSign",
                                    "threwFetch", "threwUpdate"} /\ pc = "fanout")
                   => (task'[e] = task[e] /\ tally'[e] = tally[e]
                         /\ updCount'[e] = updCount[e])]_vars

\* A finished cycle with one recipient Delivered and another Gone and
\* deactivated.
C21_Witness ==
    /\ variant = "waitUntil"
    /\ pc = "returned"
    /\ \E e1, e2 \in Endpoints :
          /\ tally[e1].success = 1
          /\ task[e2].phase = "responded"
          /\ task[e2].status = 410
          /\ updCount[e2] = 1

\* C23: handleScheduled's promise resolves only once every delivery task of
\* the cycle has reached a terminal outcome: never while a delivery request
\* or a deactivation of the cycle is still in flight.
C23_ReturnsAfterTasks ==
    (variant = "waitUntil" /\ handlerDone) =>
        \A e \in Endpoints :
            task[e].phase \notin {"pending", "inflight", "stalled", "updating"}

\* C28: in the waitUntil version, once every task has finished,
\* successCount + failCount is the number of fetched subscriptions, each
\* subscription having incremented one of the counters, once.
C28_CountersAddUp ==
    (variant = "waitUntil" /\ listing = "rows"
        /\ \A e \in DOMAIN results :
              task[e].phase \in {"responded", "threwEncrypt", "threwSign",
                                 "threwFetch", "threwUpdate"})
    => /\ SuccessCount + FailCount = Cardinality(DOMAIN results)
       /\ \A e \in DOMAIN results : tally[e].success + tally[e].fail = 1

\* C22: in handleScheduled no deactivation UPDATE is issued before every task
\* of the cycle has finished; expiredEndpoints is read only past the join, and
\* then holds each endpoint answered 404/410 exactly once, and no other, in
\* whatever order the tasks finished.
C22_JoinBeforeDeactivation ==
    variant = "scheduled" =>
        /\ (\E e \in Endpoints : updCount[e] > 0) =>
              \A e \in DOMAIN results :
                  task[e].phase \in {"responded", "threwEncrypt", "threwSign", "threwFetch"}
        /\ pc = "deactivate" =>
              /\ \A e \in DOMAIN results :
                    task[e].phase \in {"responded", "threwEncrypt", "threwSign", "threwFetch"}
              /\ \A e \in Endpoints :
                    Cardinality({i \in 1..Len(expiredEndpoints) : expiredEndpoints[i] = e})
                       = (IF task[e].phase = "responded" /\ task[e].status \in {404, 410}
                          THEN 1 ELSE 0)

\* The deactivation loop starts on a list whose order is that of the
\* responses, not of the rows.
C22_Witness ==
    /\ variant = "scheduled"
    /\ pc = "deactivate"
    /\ expiredEndpoints = <<2, 1>>

\* C24: every delivery request of a cycle is a POST to the subscription's own
\* endpoint; its body is the record encrypted under that subscription's
\* p256dh and auth; Content-Length is the byte length of that body; and it
\* carries Content-Encoding aes128gcm, Content-Type application/octet-stream,
\* TTL, Authorization and Crypto-Key.
C24_RequestShape ==
    \A e \in Endpoints :
        request[e] # NoRequest =>
            /\ request[e].method = "POST"
            /\ request[e].url = e
            /\ request[e].body.p256dh = results[e].p256dh
            /\ request[e].body.auth = results[e].auth
            /\ request[e].body.byteLength = (IF Len(mission) = 39 THEN 291 ELSE 316)
            /\ request[e].headers.ContentLength =
                  (IF Len(mission) = 39 THEN <<"2", "9", "1">>
                   ELSE <<"3", "1", "6">>)
            /\ request[e].headers.ContentEncoding = "aes128gcm"
            /\ request[e].headers.ContentType = "application/octet-stream"
            /\ DOMAIN request[e].headers =
                  {"Authorization", "CryptoKey", "ContentType",
                   "ContentEncoding", "ContentLength", "TTL"}

\* Two requests of one cycle, to subscriptions with different keys.
C24_Witness ==
    \E e1, e2 \in Endpoints :
        /\ request[e1] # NoRequest
        /\ request[e2] # NoRequest
        /\ request[e1].body.p256dh # request[e2].body.p256dh

\* C25: outside development, that is for a hostname other than 'localhost'
\* and '127.0.0.1', the test endpoint answers 403, reads nothing from the
\* database, sends no push request and deactivates no subscription.
C25_TestOnlyInDevelopment ==
    /\ []((input.fn = "testPush" /\ input.hostname \notin {"localhost", "127.0.0.1"})
            => /\ output.status = 403
               /\ output.dbReads = 0
               /\ output.pushed = {}
               /\ output.updates = {}
               /\ testPc = "idle"
               /\ testTurn = NoTurn)
    /\ [][\A h \in Hostnames \ {"localhost", "127.0.0.1"} :
             (\E ok \in BOOLEAN : TestRequest(h, ok))
                => (store' = store /\ UNCHANGED testVars)]_vars

\* The endpoint was called on the production host while a subscription was
\* active, and answered 403.
C25_Witness ==
    /\ input.fn = "testPush"
    /\ input.hostname = "kindspread.app"
    /\ output.status = 403
    /\ \E e \in DOMAIN store : store[e].active = 1

\* C26: when a POST /api/push/subscribe for e commits after the cycle got
\* the 404/410 for e and before the cycle's deactivation step, e is active
\* when the cycle ends.
C26_FreshRegistrationSurvives ==
    (input.fn = "resubscribe" /\ pc \in {"returned", "threw"}) =>
        \A e \in input.fresh : store[e].active = 1

\* C27: whatever the limit parameter is (absent, positive, zero, negative or
\* not a number), the value bound to SQL LIMIT is an integer from 0 to 500.
C27_LimitWithinBounds ==
    (input.fn = "getCompletions" /\ output.fn = "bound") =>
        /\ ~output.limit.nan
        /\ output.limit.value >= 0
        /\ output.limit.value <= 500

\* C29: toggleNotifications never has two subscribe/unsubscribe operations in
\* flight; isToggling is true exactly while one is in flight; a call made
\* while isToggling is true changes nothing; and when the operation ends,
\* whatever it resolved to, isToggling is false again (the awaited functions
\* catch their errors, so the await never rejects).
C29_OneToggleInFlight ==
    /\ [](/\ Len(inFlight) <= 1
          /\ isToggling <=> (inFlight # << >>))
    /\ [][/\ (isToggling /\ toggleCalls' = toggleCalls + 1) =>
                 UNCHANGED <<store, isToggling, inFlight, isSubscribed,
                             notificationPermission, pushSupported>>
          /\ (Len(inFlight') < Len(inFlight)) => ~isToggling']_vars

\* Calls have arrived while an unsubscribe was awaited whose DELETE the
\* server has already run, after an earlier subscribe had ended.
C29_Witness ==
    /\ isToggling
    /\ Len(inFlight) = 1
    /\ inFlight[1].op = "unsubscribe"
    /\ inFlight[1].served
    /\ toggleCalls = MaxToggles
    /\ \E e \in DOMAIN store : store[e].active = 0

\* C30: a POST /api/completions that is rejected leaves the table as it was:
\* a body without mission_text, latitude or longitude, or with latitude
\* outside [-90, 90] or longitude outside [-180, 180], is answered 400; a
\* request whose SELECT finds a row of its anonymous_id for the day the
\* handler read is answered 409, and 409 is answered in no other case; a
\* row is added only by the request answered 200; and latitude 0 with
\* longitude 0 passes validation.
C30_RejectedLeavesStore ==
    [][/\ \A id \in 1..MaxRequests :
          (compReqs[id].phase = "none" /\ compReqs'[id].phase # "none") =>
          \A body \in BodiesOf(compReqs'[id].anonymous_id) :
            compReqs'[id] = CompReceived(body, utcDay) =>
              LET missing == \/ body.mission_text = << >>
                             \/ body.latitude = << >>
                             \/ body.longitude = << >>
                  outside == /\ ~missing
                             /\ \/ body.latitude[1] < -90
                                \/ body.latitude[1] > 90
                                \/ body.longitude[1] < -180
                                \/ body.longitude[1] > 180
              IN  /\ completions' = completions
                  /\ (missing \/ outside) => compReqs'[id].status = 400
                  /\ (body.mission_text = <<"m">> /\ body.latitude = <<0>>
                        /\ body.longitude = <<0>>) =>
                         /\ compReqs'[id].status = 0
                         /\ compReqs'[id].phase =
                               (IF body.anonymous_id = "" THEN "insert" ELSE "select")
                         /\ body.anonymous_id # "" => compReqs'[id].today = utcDay
       /\ \A id \in 1..MaxRequests :
            (compReqs[id].phase = "select" /\ compReqs'[id].phase # "select") =>
              LET duplicate == \E i \in 1..Len(completions) :
                                  /\ completions[i].anonymous_id = compReqs[id].anonymous_id
                                  /\ completions[i].day = compReqs[id].today
              IN  /\ completions' = completions
                  /\ compReqs'[id].status = 409 => duplicate
                  /\ \A ok \in BOOLEAN :
                        CompSelect(id, ok) =>
                            /\ (ok /\ duplicate) => compReqs'[id].status = 409
                            /\ (ok /\ ~duplicate) =>
                                  /\ compReqs'[id].phase = "insert"
                                  /\ compReqs'[id].status = 0
                            /\ ~ok => compReqs'[id].status = 500
       /\ completions' # completions =>
            \E id \in 1..MaxRequests :
                /\ compReqs[id].phase = "insert"
                /\ compReqs'[id].status = 200
                /\ completions' = Append(completions,
                                         CompletionRow(compReqs[id].anonymous_id, utcDay))
                /\ \A other \in 1..MaxRequests \ {id} :
                       compReqs'[other] = compReqs[other]
       /\ \A id \in 1..MaxRequests :
            (compReqs'[id].status \in {400, 409, 500} /\ compReqs[id].status = 0)
                => completions' = completions]_vars

\* One request was answered 200 and its row is the only one; the same user's
\* second request of the day was answered 409.
C30_Witness ==
    /\ Len(completions) = 1
    /\ \E a, b \in 1..MaxRequests :
          /\ compReqs[a].status = 200
          /\ compReqs[b].status = 409
          /\ compReqs[a].anonymous_id = compReqs[b].anonymous_id

====
